---- MODULE Spec2Model ----
(***************************************************************************)
(* Wavelength calibration of an MKID array (mkidpipeline/calibration/      *)
(* wavecal.py): histogram construction, histogram and calibration fitting  *)
(* for one pixel, the Solution store and its persistence, and the          *)
(* multi-process orchestrator Calibrator._parallel with its workers.       *)
(*                                                                         *)
(* Numbers are integers: times are microseconds, phases and bin widths     *)
(* are integer detector units.  The model layer (wavecal_models) is not    *)
(* part of the sources; a fit is a deterministic function of (wavelength   *)
(* data, model kind, guess) held in the variable fitres.                   *)
(***************************************************************************)
EXTENDS Integers, Sequences, FiniteSets, TLC

VARIABLES
    cfg,        \* the Configuration in use (Calibrator.cfg, Solution.cfg)
    photons,    \* photon source: pixel -> wavelength index -> photon list
    fitres,     \* the fit oracle of the model layer
    fit_array,  \* Solution._fit_array: pixel -> None or Some(slot)
    beam,       \* Solution._beam_map and Solution._beam_map_flags
    prev,       \* fit_array as it was before the last operation
    stage,      \* the operations applied so far, in order
    info,       \* what the last operation reported: whether it raised, its log
    archive,    \* the file written by Solution.save (None before)
    loaded,     \* the Solution built by Solution.load (None before)
    orch,            \* Calibrator._parallel: position, arguments, _acquired
    input_queues,    \* the input queues, each a sequence of items
    output_queue,    \* results on their way to the orchestrator
    progress_queue,  \* messages on their way to the progress worker
    events,          \* the stop events: one per worker, the last for the progress worker
    workers          \* the worker processes: position, unit in hand, private Solution

runvars == <<stage, info, archive, loaded>>
parvars == <<orch, input_queues, output_queue, progress_queue, events, workers>>
vars == <<cfg, photons, fitres, fit_array, beam, prev, runvars, parvars>>

(***************************************************************************)
(* Bounds of the model.                                                    *)
(***************************************************************************)
MaxPhotons == 2      \* longest photon list drawn freely
NWavelengths == 2    \* configured wavelengths in the histogram specification

(***************************************************************************)
(* Python's None, and values that may be None.                             *)
(***************************************************************************)
None == <<>>
Some(v) == <<v>>
The(o) == o[1]

Max(S) == CHOOSE m \in S : \A e \in S : e <= m
Min(S) == CHOOSE m \in S : \A e \in S : m <= e
Range(s) == {s[i] : i \in DOMAIN s}

RECURSIVE SumOver(_, _)
SumOver(f, S) ==
    IF S = {} THEN 0
    ELSE LET e == CHOOSE e \in S : TRUE IN f[e] + SumOver(f, S \ {e})

(***************************************************************************)
(* Model layer: a freshly constructed histogram or calibration model.      *)
(***************************************************************************)
FlagNotAttempted == -1

NewModel(kind, pixel, res_id) ==
    [kind |-> kind, pixel |-> pixel, res_id |-> res_id, flag |-> FlagNotAttempted,
     x |-> None, y |-> None, variance |-> None, best_fit_result |-> None]

NewCalibrationModel(kind, pixel, res_id) ==
    [kind |-> kind, pixel |-> pixel, res_id |-> res_id, flag |-> FlagNotAttempted,
     x |-> None, y |-> None, variance |-> None, best_fit_result |-> None,
     min_x |-> None, max_x |-> None]

has_good_solution(model) ==
    /\ model.best_fit_result # None
    /\ The(model.best_fit_result).good

(***************************************************************************)
(* Solution.__getitem__: a slot is created on first access, with one       *)
(* histogram model per configured wavelength and one calibration model,    *)
(* all of the first configured kind.                                       *)
(***************************************************************************)
DefaultSlot(c, pixel, res_id) ==
    [histograms |-> [i \in 1..Len(c.wavelengths) |->
                        NewModel(c.histogram_model_names[1], pixel, res_id)],
     calibration |-> NewCalibrationModel(c.calibration_model_names[1], pixel, res_id)]

getitem(c, entry, pixel, res_id) ==
    IF entry = None THEN DefaultSlot(c, pixel, res_id) ELSE The(entry)

(***************************************************************************)
(* Calibrator._remove_tail_riding_photons: stable sort by time, then keep  *)
(* the first event and every event more than dt after its predecessor in   *)
(* the sorted list.                                                        *)
(***************************************************************************)
RECURSIVE InsertByTime(_, _)
InsertByTime(sorted, e) ==
    IF sorted = <<>> THEN <<e>>
    ELSE IF e.Time < Head(sorted).Time THEN <<e>> \o sorted
    ELSE <<Head(sorted)>> \o InsertByTime(Tail(sorted), e)

RECURSIVE SortByTime(_)
SortByTime(list) ==
    IF list = <<>> THEN <<>>
    ELSE InsertByTime(SortByTime(SubSeq(list, 1, Len(list) - 1)), list[Len(list)])

remove_tail_riding_photons(c, photon_list) ==
    LET sorted == SortByTime(photon_list)
        logic == [i \in 1..Len(sorted) |->
                     IF i = 1 THEN TRUE ELSE sorted[i].Time - sorted[i - 1].Time > c.dt]
    IN SelectSeq([i \in 1..Len(sorted) |-> [e |-> sorted[i], keep |-> logic[i]]],
                 LAMBDA r : r.keep)

(***************************************************************************)
(* Calibrator._histogram on a non-empty phase list.  Edges run from the    *)
(* largest phase downwards in steps of the bin width and stop before       *)
(* min_phase - bin_width (np.arange); np.histogram's bins are half open,   *)
(* the last one closed.  With a single edge there is no bin and np.max of  *)
(* the empty count array raises ValueError.                                *)
(***************************************************************************)
PeakWanted == 400
MaxUpdates == 3

Pow2(k) == IF k = 0 THEN 1 ELSE IF k = 1 THEN 2 ELSE IF k = 2 THEN 4 ELSE 8

bin_edges(min_phase, max_phase, bin_width) ==
    LET ks == {k \in 0..(max_phase - min_phase + bin_width) :
                  max_phase - k * bin_width > min_phase - bin_width}
        m == Cardinality(ks)
    IN [j \in 1..m |-> max_phase - (m - j) * bin_width]

np_histogram(phase_list, edges) ==
    LET nb == Len(edges) - 1
    IN [j \in 1..nb |->
           Cardinality({i \in DOMAIN phase_list :
               /\ edges[j] <= phase_list[i]
               /\ IF j = nb THEN phase_list[i] <= edges[j + 1]
                            ELSE phase_list[i] < edges[j + 1]})]

RECURSIVE histogram_loop(_, _, _, _)
histogram_loop(c, phase_list, update, last) ==
    IF ~(last.max_count < PeakWanted /\ update < MaxUpdates) THEN last
    ELSE LET bin_width == c.bin_width * Pow2(update)
             edges == bin_edges(Min(Range(phase_list)), Max(Range(phase_list)), bin_width)
             counts == np_histogram(phase_list, edges)
             centers == [j \in 1..(Len(edges) - 1) |-> edges[j] + edges[j + 1]]
         IN IF counts = <<>>
            THEN [last EXCEPT !.error = TRUE, !.updates = update + 1]
            ELSE histogram_loop(c, phase_list, update + 1,
                     [centers |-> centers, counts |-> counts,
                      max_count |-> Max(Range(counts)), updates |-> update + 1,
                      bin_width |-> bin_width, error |-> FALSE])

\* centers are kept doubled (edge + next edge) so that they stay integers
histogram(c, phase_list) ==
    histogram_loop(c, phase_list, 0,
        [centers |-> <<>>, counts |-> <<>>, max_count |-> 0, updates |-> 0,
         bin_width |-> 0, error |-> FALSE])

(***************************************************************************)
(* Calibrator.make_histograms for one pixel.  wls holds the indices (in    *)
(* cfg.wavelengths) of the wavelengths asked for, in the order given; the  *)
(* models are the objects stored in the Solution and are changed in place. *)
(* The result carries the histogram models and whether the call raised.    *)
(***************************************************************************)
HotRate == 2000
MicroPerSecond == 1000000

Variance(counts) == [j \in DOMAIN counts |-> <<"sqrt(n^2+1/4)-1/2", counts[j]>>]

too_hot(photon_list) ==
    LET times == {photon_list[i].Time : i \in DOMAIN photon_list}
        span == Max(times) - Min(times)
    IN \/ span = 0
       \/ Len(photon_list) * MicroPerSecond > HotRate * span

negative_phases_none(phase_list) == phase_list

\* phase_list[phase_list < 0]
negative_phases(phase_list) == SelectSeq(phase_list, LAMBDA p : p < 0)

no_photons_lt1(photon_list) == Len(photon_list) < 1

no_photons(photon_list) == Len(photon_list) < 2

make_histogram(c, model, photon_list) ==
    IF no_photons(photon_list) THEN [model |-> [model EXCEPT !.flag = 1], error |-> FALSE]
    ELSE IF too_hot(photon_list)
    THEN [model |-> [model EXCEPT !.flag = 2], error |-> FALSE]
    ELSE LET kept == remove_tail_riding_photons(c, photon_list)
             all_phases == [i \in DOMAIN kept |-> kept[i].e.Wavelength]
             phase_list == negative_phases(all_phases)
         IN IF Len(kept) = 0
            THEN [model |-> [model EXCEPT !.flag = 3], error |-> FALSE]
            ELSE IF Len(phase_list) = 0
            THEN [model |-> [model EXCEPT !.flag = 4], error |-> FALSE]
            ELSE LET h == histogram(c, phase_list)
                 IN IF h.error THEN [model |-> model, error |-> TRUE]
                    ELSE [model |-> [model EXCEPT !.x = Some(h.centers),
                                                  !.y = Some(h.counts),
                                                  !.variance = Some(Variance(h.counts))],
                          error |-> FALSE]

RECURSIVE make_histograms_loop(_, _, _, _, _)
make_histograms_loop(c, models, source, wls, k) ==
    IF k > Len(wls) THEN [histograms |-> models, error |-> FALSE, failed_at |-> 0]
    ELSE LET r == make_histogram(c, models[wls[k]], source[wls[k]])
         IN IF r.error THEN [histograms |-> models, error |-> TRUE, failed_at |-> wls[k]]
            ELSE make_histograms_loop(c, [models EXCEPT ![wls[k]] = r.model],
                                      source, wls, k + 1)

make_histograms(c, entry, source, wls) ==
    LET r == make_histograms_loop(c, entry.histograms, source, wls, 1)
    IN [slot |-> [entry EXCEPT !.histograms = r.histograms], error |-> r.error,
        failed_at |-> r.failed_at]

(***************************************************************************)
(* Model layer, fitting.  A guess is either the model's own guess number   *)
(* fit_index or the guess Calibrator._guess derives from the neighbouring  *)
(* good fits.  The outcome of a fit is read from fitres: whether it is a   *)
(* good solution, whether the optimizer converged, its AIC and its         *)
(* parameters.  fit() replaces best_fit_result.                            *)
(***************************************************************************)
max_parameters == 1

SelfGuess(fit_index) == [type |-> "self", index |-> fit_index, shorter |-> 0, longer |-> 0]

GuessClass(g) == <<g.type, g.index, g.shorter # 0, g.longer # 0>>

fit(i, model, g) ==
    LET isgood == <<i, model.kind, GuessClass(g)>> \in fitres.good
    IN [model EXCEPT !.best_fit_result =
           Some([good |-> isgood,
                 success |-> isgood \/ fitres.converges[model.kind],
                 aic |-> fitres.aic[model.kind],
                 guess |-> g,
                 signal_center |-> fitres.center[i],
                 stderr |-> fitres.stderr[i],
                 signal_sigma |-> fitres.sigma[i]])]

(***************************************************************************)
(* Solution.has_good_histogram_solutions and Calibrator._guess.  _guess    *)
(* takes the closest good fit at a shorter and at a longer wavelength      *)
(* according to good_solutions and raises when there is neither.           *)
(***************************************************************************)
has_fitted_histogram_solutions(models) ==
    [i \in DOMAIN models |-> models[i].best_fit_result # None]

has_good_histogram_solutions(models) ==
    [i \in DOMAIN models |-> has_good_solution(models[i])]

guess(wavelength_index, good_solutions) ==
    LET shorter == {i \in DOMAIN good_solutions : i < wavelength_index /\ good_solutions[i]}
        longer == {i \in DOMAIN good_solutions : i > wavelength_index /\ good_solutions[i]}
        shorter_index == IF shorter = {} THEN 0 ELSE Max(shorter)
        longer_index == IF longer = {} THEN 0 ELSE Min(longer)
    IN [type |-> "informed", index |-> 0, shorter |-> shorter_index,
        longer |-> longer_index]

guess_raises_without_longer(wavelength_index, good_solutions) ==
    \A i \in DOMAIN good_solutions : good_solutions[i] => i <= wavelength_index

guess_raises(wavelength_index, good_solutions) ==
    \A i \in DOMAIN good_solutions : good_solutions[i] => i = wavelength_index

(***************************************************************************)
(* Calibrator._update_histogram_model: a new model of the wanted kind      *)
(* replaces the stored one and takes over its data.                        *)
(***************************************************************************)
update_histogram_model(stored_model, kind) ==
    [NewModel(kind, stored_model.pixel, stored_model.res_id) EXCEPT
        !.x = stored_model.x, !.y = stored_model.y, !.variance = stored_model.variance]

(***************************************************************************)
(* Calibrator._assign_best_histogram_model and _assign_best_calibration_   *)
(* model: the loop compares every later model with best_model only.        *)
(***************************************************************************)
RECURSIVE assign_scan(_, _, _, _)
assign_scan(tried_models, k, best_model, lowest_aic_model) ==
    IF k > Len(tried_models)
    THEN [best_model |-> best_model, lowest_aic_model |-> lowest_aic_model]
    ELSE LET model == tried_models[k]
             lower_aic == The(model.best_fit_result).aic < The(best_model.best_fit_result).aic
             good_fit == has_good_solution(model)
         IN assign_scan(tried_models, k + 1,
                        IF lower_aic /\ good_fit THEN model ELSE best_model,
                        IF lower_aic THEN model ELSE lowest_aic_model)

assign_best_model(tried_models, good_flag, diverged_flag, invalid_flag) ==
    LET r == assign_scan(tried_models, 2, tried_models[1], tried_models[1])
    IN IF has_good_solution(r.best_model)
       THEN [r.best_model EXCEPT !.flag = good_flag]
       ELSE IF ~The(r.lowest_aic_model.best_fit_result).success
       THEN [r.lowest_aic_model EXCEPT !.flag = diverged_flag]
       ELSE [r.lowest_aic_model EXCEPT !.flag = invalid_flag]

assign_best_histogram_model(tried_models) == assign_best_model(tried_models, 0, 6, 7)

assign_best_calibration_model_hist(tried_models) == assign_best_model(tried_models, 0, 6, 7)

assign_best_calibration_model(tried_models) == assign_best_model(tried_models, 10, 13, 14)

(***************************************************************************)
(* Calibrator.fit_histograms for one pixel, all configured wavelengths.    *)
(*                                                                         *)
(* The state threaded through the two passes:                              *)
(*   stored   the histogram models held by the Solution;                   *)
(*   models   the objects of the local array `models`, taken from the      *)
(*            Solution when the call starts (a boolean-mask copy of the    *)
(*            array: the same objects, but later replacements in the       *)
(*            Solution do not show in it);                                 *)
(*   aliased  whether models[i] is still the object stored at i;           *)
(*   log      every fit made: pass, wavelength index, kind, guess, good.   *)
(* Model kinds are distinct classes: isinstance(model, kind) is equality   *)
(* of kinds.                                                               *)
(***************************************************************************)
Replace(st, i, model) ==
    [st EXCEPT !.stored[i] = model, !.aliased[i] = FALSE]

InPlace(st, i, model) ==
    [st EXCEPT !.stored[i] = model,
               !.models[i] = IF st.aliased[i] THEN model ELSE @]

Logged(st, pass, i, model) ==
    [st EXCEPT !.log = Append(@, [pass |-> pass, index |-> i, kind |-> model.kind,
                                  guess |-> The(model.best_fit_result).guess,
                                  good |-> has_good_solution(model)])]

Tried(st, model) == [st EXCEPT !.tried = Append(@, model)]

Raised(st) == [st EXCEPT !.error = TRUE]

\* the loop over fit_index: fit with the model's own guesses until one is good
RECURSIVE self_guess_loop(_, _, _, _)
self_guess_fitted(c, st, i, fit_index, fitted) ==
    IF has_good_solution(fitted) THEN Logged(InPlace(st, i, fitted), 1, i, fitted)
    ELSE self_guess_loop(c, Logged(InPlace(st, i, fitted), 1, i, fitted), i, fit_index + 1)

self_guess_loop(c, st, i, fit_index) ==
    IF fit_index >= c.histogram_fit_attempts THEN st
    ELSE self_guess_fitted(c, st, i, fit_index, fit(i, st.stored[i], SelfGuess(fit_index)))

\* the loop over the configured model kinds, first pass
RECURSIVE first_pass_kinds(_, _, _, _)
first_pass_tried(c, st, i, kk) ==
    IF st.stored[i].best_fit_result = None THEN Raised(st)
    ELSE first_pass_kinds(c, Tried(st, st.stored[i]), i, kk + 1)

first_pass_informed(c, st, i, kk, informed) ==
    IF has_good_solution(informed)
    THEN first_pass_kinds(c, Tried(Logged(InPlace(st, i, informed), 1, i, informed),
                                   informed), i, kk + 1)
    ELSE first_pass_tried(c, self_guess_loop(c, Logged(InPlace(st, i, informed), 1, i,
                                                      informed), i, 0), i, kk)

first_pass_guess(c, st, i, kk, good_solutions) ==
    IF \A j \in DOMAIN good_solutions : ~good_solutions[j]
    THEN first_pass_tried(c, self_guess_loop(c, st, i, 0), i, kk)
    ELSE IF guess_raises(i, good_solutions) THEN Raised(st)
    ELSE first_pass_informed(c, st, i, kk, fit(i, st.stored[i], guess(i, good_solutions)))

first_pass_cleared(c, st, i, kk) ==
    first_pass_guess(c, InPlace(st, i, [st.stored[i] EXCEPT !.best_fit_result = None]),
                     i, kk, has_good_histogram_solutions(
                                [st.stored EXCEPT ![i].best_fit_result = None]))

first_pass_kinds(c, st, i, kk) ==
    IF st.error \/ kk > Len(c.histogram_model_names) THEN st
    ELSE first_pass_cleared(c,
             IF st.stored[i].kind # c.histogram_model_names[kk]
             THEN Replace(st, i, update_histogram_model(st.stored[i],
                                                        c.histogram_model_names[kk]))
             ELSE st, i, kk)

\* the loop over the wavelengths, first pass
RECURSIVE first_pass(_, _, _)
first_pass_assign(c, st, i) ==
    IF st.error THEN st
    ELSE first_pass(c, Replace(st, i, assign_best_histogram_model(st.tried)), i + 1)

first_pass(c, st, i) ==
    IF st.error \/ i > Len(st.stored) THEN st
    ELSE IF st.stored[i].x = None \/ st.stored[i].y = None THEN first_pass(c, st, i + 1)
    ELSE IF Len(The(st.stored[i].x)) < max_parameters * 2
    THEN first_pass(c, InPlace(st, i, [st.stored[i] EXCEPT !.flag = 5]), i + 1)
    ELSE first_pass_assign(c, first_pass_kinds(c, [st EXCEPT !.tried = <<>>], i, 1), i)

\* the loop over the configured model kinds, second pass; cur is the object the local
\* variable `model` refers to, held says whether it is the object stored at i
RECURSIVE second_pass_kinds(_, _, _, _, _, _, _)
second_pass_fitted(c, st, i, kk, fitted, held, good_solutions) ==
    IF has_good_solution(fitted) THEN Logged(st, 2, i, fitted)
    ELSE second_pass_kinds(c, Tried(Logged(st, 2, i, fitted), fitted), i, kk + 1,
                           fitted, held, good_solutions)

second_pass_fit(c, st, i, kk, cur, held, swap, good_solutions) ==
    second_pass_fitted(c,
        IF held \/ swap
        THEN [st EXCEPT !.stored[i] = fit(i, cur, guess(i, good_solutions)),
                        !.aliased[i] = @ /\ ~swap]
        ELSE st,
        i, kk, fit(i, cur, guess(i, good_solutions)), held \/ swap, good_solutions)

second_pass_kinds(c, st, i, kk, cur, held, good_solutions) ==
    IF kk > Len(c.histogram_model_names)
    THEN Replace(st, i, assign_best_histogram_model(st.tried))
    ELSE second_pass_fit(c, st, i, kk,
             IF cur.kind # c.histogram_model_names[kk]
             THEN update_histogram_model(st.stored[i], c.histogram_model_names[kk])
             ELSE cur,
             held, cur.kind # c.histogram_model_names[kk], good_solutions)

\* the loop over the wavelengths, second pass
RECURSIVE second_pass(_, _, _, _)
second_pass_model(c, st, i, model, good_solutions) ==
    IF model.x = None \/ model.y = None THEN second_pass(c, st, i + 1, good_solutions)
    ELSE IF has_good_solution(model) THEN second_pass(c, st, i + 1, good_solutions)
    ELSE IF \E j \in DOMAIN good_solutions : j > i /\ good_solutions[j]
    THEN second_pass(c, second_pass_kinds(c, [st EXCEPT !.tried = <<>>], i, 1, model,
                                          st.aliased[i], good_solutions),
                     i + 1, good_solutions)
    ELSE second_pass(c, st, i + 1, good_solutions)

second_pass(c, st, i, good_solutions) ==
    IF i > Len(st.stored) THEN st
    ELSE second_pass_model(c, st, i, IF st.aliased[i] THEN st.stored[i] ELSE st.models[i],
                           good_solutions)

fit_histograms_result(entry, st1, st2) ==
    [slot |-> [entry EXCEPT !.histograms = st2.stored], error |-> st2.error,
     log |-> st2.log, after_first |-> st1.stored]

fit_histograms_passes(c, entry, st1) ==
    fit_histograms_result(entry, st1,
        IF st1.error THEN st1
        ELSE second_pass(c, st1, 1, has_good_histogram_solutions(st1.stored)))

fit_histograms(c, entry) ==
    fit_histograms_passes(c, entry,
        first_pass(c, [stored |-> entry.histograms, models |-> entry.histograms,
                       aliased |-> [i \in DOMAIN entry.histograms |-> TRUE],
                       tried |-> <<>>, log |-> <<>>, error |-> FALSE], 1))

(***************************************************************************)
(* Calibrator.fit_calibrations for one pixel, all configured wavelengths.  *)
(* Points come from the wavelengths with a good histogram fit, in          *)
(* wavelength order; sigma in the monotonicity test is the square root of  *)
(* the variance stderr^2 of the fitted centre.                             *)
(***************************************************************************)
MinPoints == 3
SigmaFactor == 4

sqrt(v) == CHOOSE r \in 0..v : r * r = v

not_monotonic_rising(phases, variance) ==
    \E i \in 1..(Len(phases) - 1) :
        phases[i + 1] - phases[i] > SigmaFactor * (sqrt(variance[i]) + sqrt(variance[i + 1]))

not_monotonic(phases, variance) ==
    LET sigma == [i \in DOMAIN variance |-> sqrt(variance[i])]
    IN \E i \in 1..(Len(phases) - 1) :
           phases[i + 1] - phases[i] < -SigmaFactor * (sigma[i] + sigma[i + 1])

update_calibration_model(stored_model, kind) ==
    [NewCalibrationModel(kind, stored_model.pixel, stored_model.res_id) EXCEPT
        !.x = stored_model.x, !.y = stored_model.y, !.variance = stored_model.variance,
        !.min_x = stored_model.min_x, !.max_x = stored_model.max_x]

fit_calibration(model) ==
    [model EXCEPT !.best_fit_result =
        Some([good |-> fitres.cal_good[model.kind],
              success |-> fitres.cal_good[model.kind] \/ fitres.cal_converges[model.kind],
              aic |-> fitres.cal_aic[model.kind],
              guess |-> "self",
              points |-> Len(The(model.x))])]

RECURSIVE calibration_kinds(_, _, _, _)
calibration_kinds(c, model, kk, tried_models) ==
    IF kk > Len(c.calibration_model_names) THEN tried_models
    ELSE LET kind == c.calibration_model_names[kk]
             model1 == IF model.kind # kind THEN update_calibration_model(model, kind)
                       ELSE model
             fitted == fit_calibration(model1)
         IN calibration_kinds(c, fitted, kk + 1, Append(tried_models, fitted))

fit_calibrations(c, entry) ==
    LET good == has_good_histogram_solutions(entry.histograms)
        used == SelectSeq([i \in DOMAIN good |-> i], LAMBDA i : good[i])
        result(i) == The(entry.histograms[used[i]].best_fit_result)
        phases == [i \in DOMAIN used |-> result(i).signal_center]
        variance == [i \in DOMAIN used |-> result(i).stderr * result(i).stderr]
        energies == [i \in DOMAIN used |-> <<"h*c/", c.wavelengths[used[i]]>>]
        sigmas == [i \in DOMAIN used |-> result(i).signal_sigma]
        arg_min == Min({i \in DOMAIN phases : \A j \in DOMAIN phases : phases[i] <= phases[j]})
        arg_max == Min({i \in DOMAIN phases : \A j \in DOMAIN phases : phases[i] >= phases[j]})
        model0 == entry.calibration
        model1 == IF Len(variance) > 0
                  THEN [model0 EXCEPT
                           !.x = Some(phases), !.y = Some(energies),
                           !.variance = Some(variance),
                           !.min_x = Some(<<phases[arg_min], "-3*sqrt", sigmas[arg_min]>>),
                           !.max_x = Some(<<phases[arg_max], "+3*sqrt", sigmas[arg_max]>>)]
                  ELSE model0
        model2 == IF not_monotonic(phases, variance) THEN [model1 EXCEPT !.flag = 12]
                  ELSE model1
    IN IF Len(variance) < MinPoints
       THEN [slot |-> [entry EXCEPT !.calibration = [model1 EXCEPT !.flag = 11]],
             phases |-> phases, variance |-> variance, not_monotonic |-> FALSE]
       ELSE [slot |-> [entry EXCEPT !.calibration =
                          assign_best_calibration_model(
                              calibration_kinds(c, model2, 1, <<>>))],
             phases |-> phases, variance |-> variance,
             not_monotonic |-> not_monotonic(phases, variance)]

(***************************************************************************)
(* Solution.save and Solution.load.  np.savez writes one member per        *)
(* keyword; an array member is its shape and its elements in row-major     *)
(* order, an object element is pickled as the attribute/value pairs of     *)
(* its state (a dict as its items), None stays None.  The configuration is *)
(* wrapped in a zero-dimensional array and unwrapped by .item().           *)
(***************************************************************************)
XPixels == 2
YPixels == 2
Pixels == (0..(XPixels - 1)) \X (0..(YPixels - 1))

Shape(a) == <<Max({p[1] : p \in DOMAIN a}) + 1, Max({p[2] : p \in DOMAIN a}) + 1>>

pickle_dumps(obj) == IF obj = None THEN None ELSE Some({<<k, The(obj)[k]>> : k \in DOMAIN The(obj)})

pickle_loads(data) ==
    IF data = None THEN None
    ELSE Some([k \in {pair[1] : pair \in The(data)} |->
                  (CHOOSE pair \in The(data) : pair[1] = k)[2]])

\* object arrays hold pickled elements, numeric arrays the values themselves
npy_write(a, object) ==
    LET shape == Shape(a)
    IN [shape |-> shape,
        data |-> [k \in 1..(shape[1] * shape[2]) |->
                     IF object
                     THEN pickle_dumps(a[<<(k - 1) \div shape[2], (k - 1) % shape[2]>>])
                     ELSE a[<<(k - 1) \div shape[2], (k - 1) % shape[2]>>]]]

npy_read(member, object) ==
    [p \in (0..(member.shape[1] - 1)) \X (0..(member.shape[2] - 1)) |->
        IF object
        THEN pickle_loads(member.data[p[1] * member.shape[2] + p[2] + 1])
        ELSE member.data[p[1] * member.shape[2] + p[2] + 1]]

save(sol) ==
    [fit_array |-> npy_write(sol.fit_array, TRUE),
     configuration |-> [shape |-> <<>>, data |-> <<pickle_dumps(Some(sol.cfg))>>],
     beam_map |-> npy_write(sol.beam_map, FALSE),
     beam_map_flags |-> npy_write(sol.beam_map_flags, FALSE)]

load_beam_map_twice(npz_file) ==
    [fit_array |-> npy_read(npz_file.fit_array, TRUE),
     cfg |-> The(pickle_loads(npz_file.configuration.data[1])),
     beam_map |-> npy_read(npz_file.beam_map, FALSE),
     beam_map_flags |-> npy_read(npz_file.beam_map, FALSE)]

load(npz_file) ==
    [fit_array |-> npy_read(npz_file.fit_array, TRUE),
     cfg |-> The(pickle_loads(npz_file.configuration.data[1])),
     beam_map |-> npy_read(npz_file.beam_map, FALSE),
     beam_map_flags |-> npy_read(npz_file.beam_map_flags, FALSE)]

(***************************************************************************)
(* The pipeline on one pixel of a Solution: Calibrator.run applies         *)
(* make_histograms, fit_histograms and fit_calibrations in this order; a   *)
(* step may be run a second time before the next one.  An operation that   *)
(* raises ends the run.  The Solution may be saved at any point and the    *)
(* file loaded afterwards.                                                 *)
(***************************************************************************)
ThePixel == <<0, 1>>

NoInfo == [error |-> FALSE, failed_at |-> 0, log |-> <<>>, after_first |-> <<>>,
           phases |-> <<>>, variance |-> <<>>, not_monotonic |-> FALSE]

Count(op) == Cardinality({k \in DOMAIN stage : stage[k] = op})
Last == IF stage = <<>> THEN "init" ELSE stage[Len(stage)]
CanRun == ~info.error /\ archive = None

Entry(p) == getitem(cfg, fit_array[p], p, beam.map[p])
AllWavelengths == [i \in 1..Len(cfg.wavelengths) |-> i]

MakeHistograms ==
    /\ CanRun
    /\ Count("make_histograms") < 2
    /\ Count("fit_histograms") = 0
    /\ LET r == make_histograms(cfg, Entry(ThePixel), photons[ThePixel], AllWavelengths)
       IN /\ fit_array' = [fit_array EXCEPT ![ThePixel] = Some(r.slot)]
          /\ info' = [NoInfo EXCEPT !.error = r.error, !.failed_at = r.failed_at]
    /\ prev' = fit_array
    /\ stage' = Append(stage, "make_histograms")
    /\ UNCHANGED <<cfg, photons, fitres, beam, archive, loaded, parvars>>

FitHistograms ==
    /\ CanRun
    /\ Count("make_histograms") > 0
    /\ Count("fit_histograms") < 2
    /\ Count("fit_calibrations") = 0
    /\ LET r == fit_histograms(cfg, Entry(ThePixel))
       IN /\ fit_array' = [fit_array EXCEPT ![ThePixel] = Some(r.slot)]
          /\ info' = [NoInfo EXCEPT !.error = r.error, !.log = r.log,
                                    !.after_first = r.after_first]
    /\ prev' = fit_array
    /\ stage' = Append(stage, "fit_histograms")
    /\ UNCHANGED <<cfg, photons, fitres, beam, archive, loaded, parvars>>

FitCalibrations ==
    /\ CanRun
    /\ Count("fit_histograms") > 0
    /\ Count("fit_calibrations") = 0
    /\ LET r == fit_calibrations(cfg, Entry(ThePixel))
       IN /\ fit_array' = [fit_array EXCEPT ![ThePixel] = Some(r.slot)]
          /\ info' = [NoInfo EXCEPT !.phases = r.phases, !.variance = r.variance,
                                    !.not_monotonic = r.not_monotonic]
    /\ prev' = fit_array
    /\ stage' = Append(stage, "fit_calibrations")
    /\ UNCHANGED <<cfg, photons, fitres, beam, archive, loaded, parvars>>

Save ==
    /\ archive = None
    /\ archive' = Some(save([fit_array |-> fit_array, cfg |-> cfg,
                             beam_map |-> beam.map, beam_map_flags |-> beam.flags]))
    /\ stage' = Append(stage, "save")
    /\ UNCHANGED <<cfg, photons, fitres, fit_array, beam, prev, info, loaded, parvars>>

Load ==
    /\ archive # None
    /\ loaded = None
    /\ loaded' = Some(load(The(archive)))
    /\ stage' = Append(stage, "load")
    /\ UNCHANGED <<cfg, photons, fitres, fit_array, beam, prev, info, archive, parvars>>

Next == MakeHistograms \/ FitHistograms \/ FitCalibrations \/ Save \/ Load

(***************************************************************************)
(* Starting states.  Every specification starts from an empty Solution;    *)
(* they differ in the configuration, the photon data and the fit oracle.   *)
(***************************************************************************)
Kinds == {"GaussianAndExponential", "GaussianAndGaussian"}
CalKinds == {"Quadratic", "Linear"}

Configuration(n, histogram_kinds, calibration_kinds_, attempts) ==
    [wavelengths |-> [i \in 1..n |-> 700 + 100 * i],
     bin_width |-> 1, dt |-> 1,
     histogram_model_names |-> histogram_kinds,
     calibration_model_names |-> calibration_kinds_,
     histogram_fit_attempts |-> attempts]

EmptySolution ==
    /\ fit_array = [p \in Pixels |-> None]
    /\ beam = [map |-> [p \in Pixels |-> 10 + p[1] * YPixels + p[2]],
               flags |-> [p \in Pixels |-> IF p = ThePixel THEN 0 ELSE 1]]
    /\ prev = fit_array
    /\ stage = <<>>
    /\ info = NoInfo
    /\ archive = None
    /\ loaded = None

\* no _parallel call is under way
Sequential ==
    /\ orch = [pc |-> "idle"]
    /\ input_queues = <<>>
    /\ output_queue = <<>>
    /\ progress_queue = <<>>
    /\ events = <<>>
    /\ workers = <<>>

\* the photon source of a run on ThePixel alone
OnePixel(lists) == [p \in Pixels |-> IF p = ThePixel THEN lists ELSE [i \in DOMAIN lists |-> <<>>]]

Oracle(good, converges, aic, center, stderr, cal_good, cal_converges, cal_aic) ==
    [good |-> good, converges |-> converges, aic |-> aic, center |-> center,
     stderr |-> stderr, sigma |-> [i \in DOMAIN center |-> 1],
     cal_good |-> cal_good, cal_converges |-> cal_converges, cal_aic |-> cal_aic]

\* two well separated events: a histogram with enough bins to fit
CleanPhotons == <<[Time |-> 0, Wavelength |-> -6], [Time |-> 5000, Wavelength |-> -1]>>

Times == {0, 1, 5000}
Phases == {-6, -1, 2, 5}
Events == [Time : Times, Wavelength : Phases]
PhotonLists == UNION {[1..n -> Events] : n \in 0..MaxPhotons}

InitHist ==
    /\ cfg = Configuration(NWavelengths, <<"GaussianAndExponential">>, <<"Quadratic">>, 1)
    /\ \E first \in PhotonLists :
       \E rest \in [2..NWavelengths ->
                       {<<>>, <<[Time |-> 0, Wavelength |-> -1]>>, CleanPhotons}] :
           photons = OnePixel([i \in 1..NWavelengths |-> IF i = 1 THEN first ELSE rest[i]])
    /\ fitres = Oracle({}, [k \in Kinds |-> TRUE], [k \in Kinds |-> 0],
                       [i \in 1..NWavelengths |-> i], [i \in 1..NWavelengths |-> 0],
                       [k \in CalKinds |-> TRUE], [k \in CalKinds |-> TRUE],
                       [k \in CalKinds |-> 0])
    /\ EmptySolution
    /\ Sequential

SpecHist == InitHist /\ [][Next]_vars

(***************************************************************************)
(* C10: whenever make_histograms has processed a wavelength of the pixel   *)
(* whose photon list has fewer than 2 events, the histogram model of that  *)
(* wavelength carries flag 1 and has null x and y, and the loop went on to *)
(* the next wavelength: that one was flagged, given data, or raised.       *)
(***************************************************************************)
Histograms == The(fit_array[ThePixel]).histograms

Photons == photons[ThePixel]

Processed(i) == info.failed_at = 0 \/ i < info.failed_at

C10_NoPhotonsFlag ==
    Last = "make_histograms" =>
        \A i \in DOMAIN Photons :
            (Len(Photons[i]) < 2 /\ Processed(i)) =>
                /\ Histograms[i].flag = 1
                /\ Histograms[i].x = None
                /\ Histograms[i].y = None
                /\ i < Len(Photons) =>
                       \/ info.failed_at = i + 1
                       \/ Histograms[i + 1].flag # FlagNotAttempted
                       \/ Histograms[i + 1].x # None

C10_Witness ==
    /\ Last = "make_histograms"
    /\ Len(Photons[1]) = 1
    /\ Histograms[1].flag = 1
    /\ Histograms[2].x # None

(***************************************************************************)
(* C11: whenever make_histograms has processed a wavelength whose photon   *)
(* list has at least 2 events, is not too hot and holds positive phases    *)
(* only, the histogram model of that wavelength carries flag 4 and its x   *)
(* and y are unset.  C11_AsStated drops the conditions on the number of    *)
(* events and on the rate: every photon list with positive phases only.    *)
(***************************************************************************)
PositiveOnly(photon_list) == \A k \in DOMAIN photon_list : photon_list[k].Wavelength > 0

C11_PositiveOnlyFlag ==
    Last = "make_histograms" =>
        \A i \in DOMAIN Photons :
            (/\ PositiveOnly(Photons[i])
             /\ ~no_photons(Photons[i])
             /\ ~too_hot(Photons[i])
             /\ Processed(i)) =>
                /\ Histograms[i].flag = 4
                /\ Histograms[i].x = None
                /\ Histograms[i].y = None

C11_Witness ==
    /\ Last = "make_histograms"
    /\ Len(Photons[1]) = 2
    /\ PositiveOnly(Photons[1])
    /\ Photons[1][1].Wavelength # Photons[1][2].Wavelength
    /\ ~too_hot(Photons[1])
    /\ Histograms[1].flag = 4
    /\ Histograms[1].x = None

C11_AsStated ==
    Last = "make_histograms" =>
        \A i \in DOMAIN Photons :
            (PositiveOnly(Photons[i]) /\ Processed(i)) =>
                /\ Histograms[i].flag = 4
                /\ Histograms[i].x = None
                /\ Histograms[i].y = None

(***************************************************************************)
(* C12: whenever make_histograms has reached _histogram for a wavelength   *)
(* (a non-empty list of negative phases passed the cuts), _histogram       *)
(* returns a histogram after at most MaxUpdates builds: the bin width of   *)
(* the returned histogram is bin_width * 2^k for the last k, it was        *)
(* rebuilt only while the peak count stayed below PeakWanted, and the      *)
(* returned counts are those of the last build.                            *)
(***************************************************************************)
PhaseList(i) ==
    LET kept == remove_tail_riding_photons(cfg, Photons[i])
    IN negative_phases([k \in DOMAIN kept |-> kept[k].e.Wavelength])

Histogrammed(i) ==
    /\ ~no_photons(Photons[i])
    /\ ~too_hot(Photons[i])
    /\ PhaseList(i) # <<>>
    /\ info.failed_at = 0 \/ i <= info.failed_at

Returned(h, phase_list) ==
    /\ ~h.error
    /\ h.updates \in 1..MaxUpdates
    /\ h.bin_width = cfg.bin_width * Pow2(h.updates - 1)
    /\ h.updates < MaxUpdates => h.max_count >= PeakWanted
    /\ h.counts = np_histogram(phase_list,
                      bin_edges(Min(Range(phase_list)), Max(Range(phase_list)),
                                h.bin_width))

C12_HistogramReturned ==
    Last = "make_histograms" =>
        \A i \in DOMAIN Photons :
            Histogrammed(i) => Returned(histogram(cfg, PhaseList(i)), PhaseList(i))

(***************************************************************************)
(* Fit oracles.  A key <<i, kind, class>> in good says that the fit of     *)
(* wavelength i with a model of that kind and a guess of that class is a   *)
(* good solution.                                                          *)
(***************************************************************************)
MaxAttempts == 2
MaxStderr == 1

SelfKeys(n) ==
    {<<i, k, <<"self", a, FALSE, FALSE>>>> : i \in 1..n, k \in Kinds, a \in 0..(MaxAttempts - 1)}

InformedKeys(I, K) ==
    {<<i, k, <<"informed", 0, s, l>>>> : i \in I, k \in K, s \in BOOLEAN, l \in BOOLEAN}

KindOrders ==
    {<<"GaussianAndExponential">>, <<"GaussianAndGaussian">>,
     <<"GaussianAndExponential", "GaussianAndGaussian">>,
     <<"GaussianAndGaussian", "GaussianAndExponential">>}

CalKindOrders == {<<"Quadratic">>, <<"Quadratic", "Linear">>}

(***************************************************************************)
(* Three wavelengths with clean data and good fits; the fitted centres and *)
(* their standard errors are free.                                         *)
(***************************************************************************)
Centers == {-5, 5, 10, 20}

InitMono ==
    /\ cfg = Configuration(3, <<"GaussianAndExponential">>, <<"Quadratic">>, 1)
    /\ photons = OnePixel([i \in 1..3 |-> CleanPhotons])
    /\ \E center \in [1..3 -> Centers], stderr \in [1..3 -> 0..MaxStderr] :
           fitres = Oracle(SelfKeys(3) \cup InformedKeys(1..3, Kinds),
                           [k \in Kinds |-> TRUE], [k \in Kinds |-> 0], center, stderr,
                           [k \in CalKinds |-> TRUE], [k \in CalKinds |-> TRUE],
                           [k \in CalKinds |-> 0])
    /\ EmptySolution
    /\ Sequential

SpecMono == InitMono /\ [][Next]_vars

(***************************************************************************)
(* The end-to-end scenario: five wavelengths, the first three with clean   *)
(* data, the last two without photons.  Fits from the model's own guess    *)
(* and calibration fits are good; whether a fit from a computed guess is   *)
(* good, the AICs and the configured kinds are free.                       *)
(***************************************************************************)
InitE2E ==
    /\ \E hk \in KindOrders, ck \in CalKindOrders, attempts \in 1..MaxAttempts :
           cfg = Configuration(5, hk, ck, attempts)
    /\ photons = OnePixel([i \in 1..5 |-> IF i <= 3 THEN CleanPhotons ELSE <<>>])
    /\ \E I \in SUBSET (1..3), aic \in [Kinds -> 0..1], cal_aic \in [CalKinds -> 0..1] :
           fitres = Oracle(SelfKeys(5) \cup InformedKeys(I, Kinds),
                           [k \in Kinds |-> TRUE], aic,
                           [i \in 1..5 |-> 10 * i], [i \in 1..5 |-> 1],
                           [k \in CalKinds |-> TRUE], [k \in CalKinds |-> TRUE], cal_aic)
    /\ EmptySolution
    /\ Sequential

SpecE2E == InitE2E /\ [][Next]_vars

(***************************************************************************)
(* Clean data at every wavelength and a free fit oracle: which fits are    *)
(* good, whether the optimizer converges, and the AICs.                    *)
(***************************************************************************)
InitFit ==
    /\ \E hk \in {<<"GaussianAndExponential">>,
                    <<"GaussianAndExponential", "GaussianAndGaussian">>} :
           cfg = Configuration(NWavelengths, hk, <<"Quadratic">>, 1)
    /\ photons = OnePixel([i \in 1..NWavelengths |-> CleanPhotons])
    /\ \E self \in SUBSET ((1..NWavelengths) \X Kinds),
          informed \in SUBSET ((1..NWavelengths) \X Kinds),
          converges \in BOOLEAN, aic \in [Kinds -> 0..1] :
           fitres = Oracle({key \in SelfKeys(NWavelengths) : <<key[1], key[2]>> \in self}
                               \cup UNION {InformedKeys({e[1]}, {e[2]}) : e \in informed},
                           [k \in Kinds |-> converges], aic,
                           [i \in 1..NWavelengths |-> 10 * i],
                           [i \in 1..NWavelengths |-> 1],
                           [k \in CalKinds |-> TRUE], [k \in CalKinds |-> TRUE],
                           [k \in CalKinds |-> 0])
    /\ EmptySolution
    /\ Sequential

SpecFit == InitFit /\ [][Next]_vars

(***************************************************************************)
(* C9: in fit_calibrations the phases are the fitted centres in wavelength *)
(* order and the "not monotonic enough" condition triggers exactly when    *)
(* some successive difference phase[i+1] - phase[i] is below               *)
(* -4 * (sigma_i + sigma_{i+1}), sigma being the standard error of the     *)
(* centre.  With small sigmas the decreasing centres [10, 5, -5] trigger   *)
(* it, [10, 20, 5] triggers it, and the increasing [-5, 5, 10] does not.   *)
(***************************************************************************)
SmallSigmas == \A i \in 1..2 : 4 * (fitres.stderr[i] + fitres.stderr[i + 1]) < 5

C9_MonotonicCheck ==
    (Last = "fit_calibrations" /\ Len(info.phases) = 3) =>
        /\ info.phases = fitres.center
        /\ info.not_monotonic <=>
               \E i \in 1..2 : fitres.center[i + 1] - fitres.center[i]
                                   < -4 * (fitres.stderr[i] + fitres.stderr[i + 1])
        /\ (fitres.center = <<10, 5, -5>> /\ SmallSigmas) => info.not_monotonic
        /\ (fitres.center = <<10, 20, 5>> /\ SmallSigmas) => info.not_monotonic
        /\ fitres.center = <<-5, 5, 10>> => ~info.not_monotonic

C9_Witness ==
    /\ Last = "fit_calibrations"
    /\ info.phases = <<10, 5, -5>>
    /\ SmallSigmas
    /\ info.not_monotonic

\* C9 as stated: centres [10, 5, -5] with small sigmas do not trigger the condition
C9_AsStated ==
    (Last = "fit_calibrations" /\ info.phases = <<10, 5, -5>> /\ SmallSigmas) =>
        ~info.not_monotonic

(***************************************************************************)
(* C6: in the end-to-end scenario the histogram flags after fit_histograms *)
(* are 0, 0, 0, 1, 1 in wavelength order, and after fit_calibrations the   *)
(* calibration model was fitted on exactly 3 points and carries flag 10.   *)
(***************************************************************************)
Calibration == The(fit_array[ThePixel]).calibration

C6_EndToEnd ==
    /\ Last = "fit_histograms" =>
           [i \in 1..5 |-> Histograms[i].flag] = <<0, 0, 0, 1, 1>>
    /\ Last = "fit_calibrations" =>
           /\ Calibration.flag = 10
           /\ Len(The(Calibration.x)) = 3
           /\ The(Calibration.best_fit_result).points = 3
           /\ has_good_solution(Calibration)

C6_Witness ==
    /\ Last = "fit_calibrations"
    /\ Count("fit_histograms") = 1
    /\ [i \in 1..5 |-> Histograms[i].flag] = <<0, 0, 0, 1, 1>>
    /\ Calibration.flag = 10
    /\ Len(The(Calibration.x)) = 3

(***************************************************************************)
(* C7: when every stored histogram model of the pixel holds a good         *)
(* solution, running fit_histograms again with the same configuration and  *)
(* data leaves every stored model as it was: same kind, same guess, same   *)
(* fit result, same flag.                                                  *)
(***************************************************************************)
PrevHistograms == The(prev[ThePixel]).histograms

Rerun ==
    /\ Last = "fit_histograms"
    /\ Count("fit_histograms") = 2
    /\ \A i \in DOMAIN PrevHistograms :
           has_good_solution(PrevHistograms[i]) /\ PrevHistograms[i].flag = 0

C7_Idempotent == Rerun => Histograms = PrevHistograms

(***************************************************************************)
(* C8: a Solution loaded from the file written by save has the same beam   *)
(* map, beam-map flags and configuration, and for every pixel the same     *)
(* entry: the same histogram and calibration models where the pixel had    *)
(* been accessed, and None, populated on access with the same default      *)
(* models, where it had not.                                               *)
(***************************************************************************)
LoadedEntry(p) ==
    getitem(The(loaded).cfg, The(loaded).fit_array[p], p, The(loaded).beam_map[p])

QueueFloor == 2      \* stands for the 50 of line 702
QueueBudget == 4     \* stands for the 750 of line 702
MaxWorkers == 2      \* compute workers of a per-pixel call
MaxCpus == 6         \* mp.cpu_count()
ParWavelengths == 2  \* configured wavelengths in a parallel run

ParPixels == <<<<0, 0>>, <<0, 1>>>>

max_queue_size(n) == Max({QueueFloor, (QueueBudget + n - 1) \div n})

Item(kind, pixel, wavelengths, fit_element) ==
    [kind |-> kind, pixel |-> pixel, wavelengths |-> wavelengths,
     fit_element |-> fit_element]

StopItem == Item("stop", <<>>, <<>>, None)
NoneItem == Item("none", <<>>, <<>>, None)

\* the work units of a call in the order of the dispatch loops, each with its queue
Units(h5_safe, pixels, n, queue_length) ==
    IF h5_safe
    THEN [k \in 1..(Len(pixels) * n) |->
             [pixel |-> pixels[((k - 1) \div n) + 1],
              wavelengths |-> <<((k - 1) % n) + 1>>,
              queue |-> (((k - 1) % n) % queue_length) + 1]]
    ELSE [k \in 1..Len(pixels) |->
             [pixel |-> pixels[k], wavelengths |-> [i \in 1..n |-> i], queue |-> 1]]

\* the number of compute workers
cpu_count_half(h5_safe, n, mp_cpu_count) == (mp_cpu_count + 1) \div 2
cpu_count(h5_safe, n, mp_cpu_count) ==
    IF h5_safe THEN Min({n, (mp_cpu_count + 1) \div 2}) ELSE (mp_cpu_count + 1) \div 2

NewCall(method, h5_safe, pixels, mp_cpu_count) ==
    [pc |-> "start", method |-> method, h5_safe |-> h5_safe,
     mp_cpu_count |-> mp_cpu_count,
     cpu_count |-> cpu_count(h5_safe, Len(cfg.wavelengths), mp_cpu_count),
     queue_length |-> IF h5_safe
                      THEN cpu_count(h5_safe, Len(cfg.wavelengths), mp_cpu_count)
                      ELSE 1,
     n_data |-> IF h5_safe THEN Len(pixels) * Len(cfg.wavelengths) ELSE Len(pixels),
     max_queue_size |-> max_queue_size(Len(cfg.wavelengths)),
     todo |-> Units(h5_safe, pixels, Len(cfg.wavelengths),
                    IF h5_safe
                    THEN cpu_count(h5_safe, Len(cfg.wavelengths), mp_cpu_count)
                    ELSE 1),
     stops |-> 0, acquired |-> 0, interrupted |-> FALSE, order |-> <<>>]

ComputeWorkers == 1..orch.cpu_count
ProgressWorker == orch.cpu_count + 1
Alive(w) == workers # <<>> /\ workers[w].pc \notin {"exited", "failed"}
QueueOf(w) == ((w - 1) % orch.queue_length) + 1
Full(queue) == Len(queue) >= orch.max_queue_size

(***************************************************************************)
(* Worker.run of a compute worker: one turn of the loop.  The method runs  *)
(* on the worker's own Solution; a raise sets the event and ends the       *)
(* process; otherwise the entry goes to the output queue and a message to  *)
(* the progress queue.                                                     *)
(***************************************************************************)
run_method(method, entry, pixel, wavelengths) ==
    IF method = "make_histograms"
    THEN make_histograms(cfg, entry, photons[pixel], wavelengths)
    ELSE IF method = "fit_histograms" THEN fit_histograms(cfg, entry)
    ELSE fit_calibrations(cfg, entry)

Overloaded(solution, item) ==
    IF item.fit_element # None THEN [solution EXCEPT ![item.pixel] = item.fit_element]
    ELSE solution

WorkerRan(w, item, r) ==
    IF "error" \in DOMAIN r /\ r.error
    THEN /\ workers' = [workers EXCEPT ![w].pc = "failed"]
         /\ events' = [events EXCEPT ![w] = TRUE]
    ELSE /\ workers' = [workers EXCEPT
                           ![w].pc = "put_output",
                           ![w].solution[item.pixel] = Some(r.slot),
                           ![w].result = Item("result", item.pixel, item.wavelengths,
                                              Some(r.slot))]
         /\ events' = events

WorkerTakes(w, item) ==
    IF item.kind = "stop"
    THEN /\ workers' = [workers EXCEPT ![w].pc = "exited"]
         /\ events' = [events EXCEPT ![w] = TRUE]
    ELSE IF item.kind = "none"
    THEN /\ workers' = [workers EXCEPT ![w].pc = "failed"]
         /\ events' = [events EXCEPT ![w] = TRUE]
    ELSE WorkerRan(w, item,
             run_method(orch.method,
                        getitem(cfg, Overloaded(workers[w].solution, item)[item.pixel],
                                item.pixel, beam.map[item.pixel]),
                        item.pixel, item.wavelengths))

CanGet(w) ==
    /\ Alive(w)
    /\ workers[w].pc = "get"
    /\ ~events[w]
    /\ input_queues[QueueOf(w)] # <<>>

CanPut(w) ==
    /\ Alive(w)
    /\ \/ workers[w].pc = "put_output" /\ ~Full(output_queue)
       \/ workers[w].pc = "put_progress" /\ ~Full(progress_queue)

WorkerGet(w) ==
    /\ CanGet(w)
    /\ WorkerTakes(w, Head(input_queues[QueueOf(w)]))
    /\ input_queues' = [input_queues EXCEPT ![QueueOf(w)] = Tail(@)]
    /\ UNCHANGED <<cfg, photons, fitres, fit_array, beam, prev, runvars, orch,
                   output_queue, progress_queue>>

WorkerPutOutput(w) ==
    /\ CanPut(w)
    /\ workers[w].pc = "put_output"
    /\ output_queue' = Append(output_queue, workers[w].result)
    /\ workers' = [workers EXCEPT ![w].pc = "put_progress", ![w].result = NoneItem]
    /\ UNCHANGED <<cfg, photons, fitres, fit_array, beam, prev, runvars, orch,
                   input_queues, progress_queue, events>>

WorkerPutProgress(w) ==
    /\ CanPut(w)
    /\ workers[w].pc = "put_progress"
    /\ progress_queue' = Append(progress_queue, "update")
    /\ workers' = [workers EXCEPT ![w].pc = "get"]
    /\ UNCHANGED <<cfg, photons, fitres, fit_array, beam, prev, runvars, orch,
                   input_queues, output_queue, events>>

\* Worker.run of the progress worker: the progress queue is its input queue
ProgressGet ==
    /\ Alive(ProgressWorker)
    /\ ~events[ProgressWorker]
    /\ progress_queue # <<>>
    /\ progress_queue' = Tail(progress_queue)
    /\ IF Head(progress_queue) = "stop"
       THEN /\ workers' = [workers EXCEPT ![ProgressWorker].pc = "exited"]
            /\ events' = [events EXCEPT ![ProgressWorker] = TRUE]
       ELSE IF Head(progress_queue) = "none"
       THEN /\ workers' = [workers EXCEPT ![ProgressWorker].pc = "failed"]
            /\ events' = [events EXCEPT ![ProgressWorker] = TRUE]
       ELSE UNCHANGED <<workers, events>>
    /\ UNCHANGED <<cfg, photons, fitres, fit_array, beam, prev, runvars, orch,
                   input_queues, output_queue>>

(***************************************************************************)
(* Calibrator._acquire_data: when every result has been acquired the       *)
(* counter is reset and nothing is read; otherwise one result is taken     *)
(* from the output queue (blocking while it is empty) and merged: in       *)
(* h5_safe mode only the models of the computed wavelengths, otherwise the *)
(* pixel's whole entry.                                                    *)
(***************************************************************************)
merge_whole_entry(solution, result) ==
    [solution EXCEPT ![result.pixel] = result.fit_element]

merge_all_entries(solution, result) ==
    IF orch.h5_safe
    THEN [solution EXCEPT ![result.pixel] =
             Some([getitem(cfg, solution[result.pixel], result.pixel,
                           beam.map[result.pixel])
                   EXCEPT !.histograms =
                       [i \in DOMAIN @ |->
                           The(result.fit_element).histograms[result.wavelengths[1]]]])]
    ELSE [solution EXCEPT ![result.pixel] = result.fit_element]

merge(solution, result) ==
    IF orch.h5_safe
    THEN [solution EXCEPT ![result.pixel] =
             Some([getitem(cfg, solution[result.pixel], result.pixel,
                           beam.map[result.pixel])
                   EXCEPT !.histograms =
                       [i \in DOMAIN @ |->
                           IF i \in Range(result.wavelengths)
                           THEN The(result.fit_element).histograms[i] ELSE @[i]]])]
    ELSE [solution EXCEPT ![result.pixel] = result.fit_element]

CanAcquire == orch.acquired = orch.n_data \/ output_queue # <<>>

acquire_data(pc_when_acquired, pc_when_complete) ==
    IF orch.acquired = orch.n_data
    THEN /\ orch' = [orch EXCEPT !.acquired = 0, !.pc = pc_when_complete]
         /\ UNCHANGED <<fit_array, output_queue>>
    ELSE /\ output_queue # <<>>
         /\ fit_array' = merge(fit_array, Head(output_queue))
         /\ output_queue' = Tail(output_queue)
         /\ orch' = [orch EXCEPT !.acquired = @ + 1,
                                 !.order = Append(@, <<Head(output_queue).pixel,
                                                      Head(output_queue).wavelengths>>),
                                 !.pc = pc_when_acquired]

Backpressure(q) == 2 * Len(input_queues[q]) > orch.max_queue_size

\* the queue that receives the stop of the worker with a given index
stop_queue_first(index) == 1
stop_queue(index) == (index % orch.queue_length) + 1

(***************************************************************************)
(* Calibrator._parallel, the try block.                                    *)
(***************************************************************************)
Start ==
    /\ orch.pc = "start"
    /\ workers' = [w \in 1..(orch.cpu_count + 1) |->
                      [pc |-> "get", result |-> NoneItem,
                       solution |-> [p \in Pixels |-> None]]]
    /\ progress_queue' = Append(progress_queue, "initialize")
    /\ orch' = [orch EXCEPT !.pc = "dispatch"]
    /\ UNCHANGED <<cfg, photons, fitres, fit_array, beam, prev, runvars,
                   input_queues, output_queue, events>>

DispatchWait ==
    /\ orch.pc = "dispatch"
    /\ Backpressure(Head(orch.todo).queue)
    /\ orch' = [orch EXCEPT !.pc = "dispatch_acquire"]
    /\ UNCHANGED <<cfg, photons, fitres, fit_array, beam, prev, runvars,
                   input_queues, output_queue, progress_queue, events, workers>>

DispatchPut ==
    /\ orch.pc = "dispatch"
    /\ ~Backpressure(Head(orch.todo).queue)
    /\ LET unit == Head(orch.todo)
           entry == Some(Entry(unit.pixel))
       IN /\ fit_array' = IF orch.h5_safe THEN fit_array
                          ELSE [fit_array EXCEPT ![unit.pixel] = entry]
          /\ input_queues' = [input_queues EXCEPT ![unit.queue] =
                 Append(@, Item("unit", unit.pixel, unit.wavelengths,
                                IF orch.h5_safe THEN None ELSE entry))]
    /\ orch' = [orch EXCEPT !.todo = Tail(@),
                            !.pc = IF Len(orch.todo) = 1 THEN "stops" ELSE "dispatch"]
    /\ UNCHANGED <<cfg, photons, fitres, beam, prev, runvars,
                   output_queue, progress_queue, events, workers>>

StopWait ==
    /\ orch.pc = "stops"
    /\ Backpressure(stop_queue(orch.stops))
    /\ orch' = [orch EXCEPT !.pc = "stops_acquire"]
    /\ UNCHANGED <<cfg, photons, fitres, fit_array, beam, prev, runvars,
                   input_queues, output_queue, progress_queue, events, workers>>

StopPut ==
    /\ orch.pc = "stops"
    /\ ~Backpressure(stop_queue(orch.stops))
    /\ input_queues' = [input_queues EXCEPT ![stop_queue(orch.stops)] =
                           Append(@, StopItem)]
    /\ orch' = [orch EXCEPT !.stops = @ + 1,
                            !.pc = IF orch.stops + 1 = orch.cpu_count THEN "collect"
                                   ELSE "stops"]
    /\ UNCHANGED <<cfg, photons, fitres, fit_array, beam, prev, runvars,
                   output_queue, progress_queue, events, workers>>

\* one call of _acquire_data, from either backpressure loop or the collecting loop
Collect ==
    /\ orch.pc \in {"dispatch_acquire", "stops_acquire", "collect"}
    /\ CASE orch.pc = "dispatch_acquire" -> acquire_data("dispatch", "dispatch")
         [] orch.pc = "stops_acquire" -> acquire_data("stops", "stops")
         [] OTHER -> acquire_data("collect", "join")
    /\ UNCHANGED <<cfg, photons, fitres, beam, prev, runvars,
                   input_queues, progress_queue, events, workers>>

Join ==
    /\ orch.pc = "join"
    /\ \A w \in ComputeWorkers : ~Alive(w)
    /\ orch' = [orch EXCEPT !.pc = "finish"]
    /\ UNCHANGED <<cfg, photons, fitres, fit_array, beam, prev, runvars,
                   input_queues, output_queue, progress_queue, events, workers>>

Finish ==
    /\ orch.pc \in {"finish", "finish_stop"}
    /\ ~Full(progress_queue)
    /\ progress_queue' = Append(progress_queue,
                                IF orch.pc = "finish" THEN "finish" ELSE "stop")
    /\ orch' = [orch EXCEPT !.pc = IF orch.pc = "finish" THEN "finish_stop"
                                   ELSE "join_progress"]
    /\ UNCHANGED <<cfg, photons, fitres, fit_array, beam, prev, runvars,
                   input_queues, output_queue, events, workers>>

JoinProgress ==
    /\ orch.pc = "join_progress"
    /\ ~Alive(ProgressWorker)
    /\ orch' = [orch EXCEPT !.pc = "done"]
    /\ UNCHANGED <<cfg, photons, fitres, fit_array, beam, prev, runvars,
                   input_queues, output_queue, progress_queue, events, workers>>

\* a KeyboardInterrupt reaches the orchestrator inside the try block
KeyboardInterrupt ==
    /\ orch.pc \in {"start", "dispatch", "dispatch_acquire", "stops", "stops_acquire",
                    "collect", "join", "finish", "finish_stop", "join_progress"}
    /\ orch' = [orch EXCEPT !.pc = "clean_up", !.interrupted = TRUE]
    /\ UNCHANGED <<cfg, photons, fitres, fit_array, beam, prev, runvars,
                   input_queues, output_queue, progress_queue, events, workers>>

(***************************************************************************)
(* Calibrator._clean_up.  An extra stop goes on every input queue (after   *)
(* making room) and on the progress queue; then the orchestrator spins     *)
(* until every event is set; then it puts the None sentinels, takes one    *)
(* more result through _acquire_data if the output queue is full, drains   *)
(* and closes the queues, sets the events and terminates and joins the     *)
(* workers; _parallel re-raises KeyboardInterrupt.                         *)
(***************************************************************************)
KeepLast(queue, n) ==
    IF Len(queue) > n THEN SubSeq(queue, Len(queue) - n + 1, Len(queue)) ELSE queue

CleanUpStops ==
    /\ orch.pc = "clean_up"
    /\ input_queues' = [q \in DOMAIN input_queues |->
                           Append(KeepLast(input_queues[q],
                                           Max({0, orch.max_queue_size - 2})),
                                  StopItem)]
    /\ orch' = [orch EXCEPT !.pc = "clean_up_progress"]
    /\ UNCHANGED <<cfg, photons, fitres, fit_array, beam, prev, runvars,
                   output_queue, progress_queue, events, workers>>

CleanUpProgress ==
    /\ orch.pc = "clean_up_progress"
    /\ ~Full(progress_queue)
    /\ progress_queue' = Append(progress_queue, "stop")
    /\ orch' = [orch EXCEPT !.pc = "clean_up_wait"]
    /\ UNCHANGED <<cfg, photons, fitres, fit_array, beam, prev, runvars,
                   input_queues, output_queue, events, workers>>

CleanUpWait ==
    /\ orch.pc = "clean_up_wait"
    /\ \A e \in DOMAIN events : events[e]
    /\ orch' = [orch EXCEPT !.pc = "clean_up_close"]
    /\ UNCHANGED <<cfg, photons, fitres, fit_array, beam, prev, runvars,
                   input_queues, output_queue, progress_queue, events, workers>>

CleanUpClose ==
    /\ orch.pc = "clean_up_close"
    /\ \A q \in DOMAIN input_queues : ~Full(input_queues[q])
    /\ ~Full(progress_queue)
    /\ IF Len(output_queue) > Max({0, orch.max_queue_size - 1})
       THEN /\ fit_array' = merge(fit_array, Head(output_queue))
            /\ orch' = [orch EXCEPT
                   !.acquired = (IF @ = orch.n_data THEN 0 ELSE @) + 1,
                   !.order = Append(@, <<Head(output_queue).pixel,
                                        Head(output_queue).wavelengths>>),
                   !.pc = "raised"]
       ELSE /\ fit_array' = fit_array
            /\ orch' = [orch EXCEPT !.pc = "raised"]
    /\ input_queues' = [q \in DOMAIN input_queues |-> <<>>]
    /\ output_queue' = <<>>
    /\ progress_queue' = <<>>
    /\ events' = [e \in DOMAIN events |-> TRUE]
    /\ workers' = [w \in DOMAIN workers |-> [workers[w] EXCEPT !.pc = "exited"]]
    /\ UNCHANGED <<cfg, photons, fitres, beam, prev, runvars>>

(***************************************************************************)
(* One call of _parallel: make_histograms in h5_safe mode on an empty      *)
(* Solution, or fit_histograms / fit_calibrations per pixel on the         *)
(* Solution the earlier steps leave.                                       *)
(***************************************************************************)
\* whether the orchestrator, a compute worker or the progress worker is not blocked
OrchestratorCanStep ==
    \/ orch.pc \in {"start", "dispatch", "stops", "clean_up"}
    \/ orch.pc \in {"dispatch_acquire", "stops_acquire", "collect"} /\ CanAcquire
    \/ orch.pc = "join" /\ \A w \in ComputeWorkers : ~Alive(w)
    \/ orch.pc \in {"finish", "finish_stop", "clean_up_progress"} /\ ~Full(progress_queue)
    \/ orch.pc = "join_progress" /\ ~Alive(ProgressWorker)
    \/ orch.pc = "clean_up_wait" /\ \A e \in DOMAIN events : events[e]
    \/ orch.pc = "clean_up_close"
           /\ ~Full(progress_queue)
           /\ \A q \in DOMAIN input_queues : ~Full(input_queues[q])

WorkersCanStep ==
    \/ \E w \in ComputeWorkers : CanGet(w) \/ CanPut(w)
    \/ Alive(ProgressWorker) /\ ~events[ProgressWorker] /\ progress_queue # <<>>

CanStep == OrchestratorCanStep \/ WorkersCanStep

Steps ==
    \/ Start \/ DispatchWait \/ DispatchPut \/ StopWait \/ StopPut \/ Collect
    \/ Join \/ Finish \/ JoinProgress
    \/ CleanUpStops \/ CleanUpProgress \/ CleanUpWait \/ CleanUpClose
    \/ \E w \in ComputeWorkers : WorkerGet(w) \/ WorkerPutOutput(w) \/ WorkerPutProgress(w)
    \/ ProgressGet

NextPar == Steps \/ KeyboardInterrupt

\* the method applied to every pixel of ParPixels, one after the other
Serial(method, solution) ==
    [p \in Pixels |->
        IF p \in Range(ParPixels)
        THEN Some(run_method(method, getitem(cfg, solution[p], p, beam.map[p]), p,
                             [i \in 1..Len(cfg.wavelengths) |-> i]).slot)
        ELSE solution[p]]

Before(method) ==
    IF method = "make_histograms" THEN [p \in Pixels |-> None]
    ELSE IF method = "fit_histograms"
    THEN Serial("make_histograms", [p \in Pixels |-> None])
    ELSE Serial("fit_histograms", Serial("make_histograms", [p \in Pixels |-> None]))

SameValued == <<[Time |-> 0, Wavelength |-> -3], [Time |-> 5000, Wavelength |-> -3]>>

ParSources ==
    {[p \in Pixels |->
         [i \in 1..ParWavelengths |->
             IF p # <<0, 0>> \/ i = 1 THEN CleanPhotons ELSE <<>>]],
     [p \in Pixels |->
         [i \in 1..ParWavelengths |->
             IF i = 1 THEN CleanPhotons
             ELSE IF p = <<0, 0>> /\ i = 2 THEN SameValued ELSE <<>>]]}

Raises(source) == \E p \in Range(ParPixels) : \E i \in DOMAIN source[p] : source[p][i] = SameValued

InitPar ==
    /\ cfg = Configuration(ParWavelengths, <<"GaussianAndExponential">>, <<"Quadratic">>, 1)
    /\ fitres = Oracle(SelfKeys(ParWavelengths), [k \in Kinds |-> TRUE],
                       [k \in Kinds |-> 0], [i \in 1..ParWavelengths |-> 10 * i],
                       [i \in 1..ParWavelengths |-> 1],
                       [k \in CalKinds |-> TRUE], [k \in CalKinds |-> TRUE],
                       [k \in CalKinds |-> 0])
    /\ beam = [map |-> [p \in Pixels |-> 10 + p[1] * YPixels + p[2]],
               flags |-> [p \in Pixels |-> 0]]
    /\ \E source \in ParSources, cpus \in 1..MaxCpus,
          method \in {"make_histograms", "fit_histograms", "fit_calibrations"} :
           /\ Raises(source) => method = "make_histograms"
           /\ method = "make_histograms"
                  \/ cpu_count(FALSE, ParWavelengths, cpus) <= MaxWorkers
           /\ photons = source
           /\ fit_array = Before(method)
           /\ orch = NewCall(method, method = "make_histograms", ParPixels, cpus)
    /\ prev = fit_array
    /\ stage = <<>>
    /\ info = NoInfo
    /\ archive = None
    /\ loaded = None
    /\ input_queues = [q \in 1..orch.queue_length |-> <<>>]
    /\ output_queue = <<>>
    /\ progress_queue = <<>>
    /\ events = [w \in 1..(orch.cpu_count + 1) |-> FALSE]
    /\ workers = <<>>

SpecPar == InitPar /\ [][NextPar]_vars

(***************************************************************************)
(* C1: when _parallel returns, the orchestrator's Solution is the one the  *)
(* method leaves when applied to the pixels one after the other, whatever  *)
(* the number of workers, their interleaving and the order in which the    *)
(* results arrived.                                                        *)
(***************************************************************************)
DispatchOrder ==
    LET units == Units(orch.h5_safe, ParPixels, Len(cfg.wavelengths), orch.queue_length)
    IN [k \in DOMAIN units |-> <<units[k].pixel, units[k].wavelengths>>]

C1_SameSolution == orch.pc = "done" => fit_array = Serial(orch.method, prev)

C1_Witness ==
    /\ orch.pc = "done"
    /\ orch.cpu_count = 2
    /\ orch.h5_safe
    /\ orch.order # DispatchOrder
    /\ fit_array = Serial(orch.method, prev)

(***************************************************************************)
(* C2: the work units enqueued and not yet consumed, summed over the input *)
(* queues, never exceed the queue capacity _max_queue_size.                *)
(***************************************************************************)
Outstanding ==
    SumOver([q \in DOMAIN input_queues |->
                Len(SelectSeq(input_queues[q], LAMBDA item : item.kind = "unit"))],
            DOMAIN input_queues)

C2_Backpressure == Outstanding <= orch.max_queue_size

(***************************************************************************)
(* C3: once a KeyboardInterrupt has reached the orchestrator, _clean_up    *)
(* can always go on until _parallel has re-raised: the program is never    *)
(* left without a step to take.                                            *)
(***************************************************************************)
C3_CleanUpCompletes == orch.interrupted => (orch.pc = "raised" \/ CanStep)

(***************************************************************************)
(* C4: after a worker has raised while processing a unit, the orchestrator *)
(* does not block forever: until _parallel has ended the program always    *)
(* has a step to take.                                                     *)
(***************************************************************************)
WorkerFailed == \E w \in DOMAIN workers : workers[w].pc = "failed"

C4_FailureObserved ==
    (WorkerFailed /\ ~orch.interrupted) => (orch.pc \in {"done", "raised"} \/ CanStep)

(***************************************************************************)
(* C5: after the KeyboardInterrupt no step changes the orchestrator's      *)
(* Solution: every pixel's entry keeps the value it had at the interrupt.  *)
(***************************************************************************)
C5_NothingCommitted == [][orch.interrupted => fit_array' = fit_array]_vars

(***************************************************************************)
(* Model selection: one wavelength with clean data, up to three configured *)
(* histogram kinds tried in order; which kinds fit well, which converge,   *)
(* and their AICs are free.                                                *)
(***************************************************************************)
MaxAic == 2

AllKinds == Kinds \cup {"GaussianAndGaussianExponential"}

InitSelect ==
    /\ \E hk \in {<<"GaussianAndExponential">>,
                    <<"GaussianAndExponential", "GaussianAndGaussian">>,
                    <<"GaussianAndExponential", "GaussianAndGaussian",
                      "GaussianAndGaussianExponential">>} :
           cfg = Configuration(1, hk, <<"Quadratic">>, 1)
    /\ photons = OnePixel(<<CleanPhotons>>)
    /\ \E good \in SUBSET AllKinds, converges \in [AllKinds -> BOOLEAN],
          aic \in [AllKinds -> 0..MaxAic] :
           fitres = Oracle({<<1, k, <<"self", 0, FALSE, FALSE>>>> : k \in good},
                           converges, aic, <<10>>, <<1>>,
                           [k \in CalKinds |-> TRUE], [k \in CalKinds |-> TRUE],
                           [k \in CalKinds |-> 0])
    /\ EmptySolution
    /\ Sequential

SpecSelect == InitSelect /\ [][Next]_vars

(***************************************************************************)
(* C13: after the first pass of fit_histograms, whenever one of the models *)
(* tried for a wavelength had a good fit, the model stored for that        *)
(* wavelength is the lowest-AIC one among the tried models with a good     *)
(* fit, the first of them in configured order on ties, and carries flag 0. *)
(* The tried model of a kind is the last first-pass fit logged for it.     *)
(***************************************************************************)
TriedFit(i, kk) ==
    LET fits == {n \in DOMAIN info.log :
                    /\ info.log[n].pass = 1
                    /\ info.log[n].index = i
                    /\ info.log[n].kind = cfg.histogram_model_names[kk]}
    IN info.log[Max(fits)]

TriedAic(kk) == fitres.aic[cfg.histogram_model_names[kk]]

Fitted(i) == \E n \in DOMAIN info.log : info.log[n].pass = 1 /\ info.log[n].index = i

GoodTried(i) == {kk \in DOMAIN cfg.histogram_model_names : TriedFit(i, kk).good}

C13_BestGoodStored ==
    (Last = "fit_histograms" /\ ~info.error) =>
        \A i \in DOMAIN info.after_first :
            (Fitted(i) /\ GoodTried(i) # {}) =>
                \E kk \in GoodTried(i) :
                    /\ \A jj \in GoodTried(i) :
                           TriedAic(kk) < TriedAic(jj) \/ (TriedAic(kk) = TriedAic(jj) /\ kk <= jj)
                    /\ info.after_first[i].kind = cfg.histogram_model_names[kk]
                    /\ has_good_solution(info.after_first[i])
                    /\ info.after_first[i].flag = 0

(***************************************************************************)
(* C14: after the first pass of fit_histograms, whenever none of the       *)
(* models tried for a wavelength had a good fit, the model stored for that *)
(* wavelength has the lowest AIC of all tried models and carries flag 6 if *)
(* its fit did not converge and flag 7 otherwise.                          *)
(***************************************************************************)
C14_LowestAicStored ==
    (Last = "fit_histograms" /\ ~info.error) =>
        \A i \in DOMAIN info.after_first :
            (Fitted(i) /\ GoodTried(i) = {}) =>
                /\ \A jj \in DOMAIN cfg.histogram_model_names :
                       The(info.after_first[i].best_fit_result).aic <= TriedAic(jj)
                /\ info.after_first[i].flag =
                       IF The(info.after_first[i].best_fit_result).success THEN 7 ELSE 6

(***************************************************************************)
(* Calibration fits: three wavelengths with clean data; which wavelengths  *)
(* have good histogram fits, the order of the fitted centres, the          *)
(* configured calibration kinds and the outcome of their fits are free.    *)
(***************************************************************************)
InitCal ==
    /\ \E ck \in {<<"Quadratic">>, <<"Linear">>, <<"Quadratic", "Linear">>,
                    <<"Linear", "Quadratic">>} :
           cfg = Configuration(3, <<"GaussianAndExponential">>, ck, 1)
    /\ photons = OnePixel([i \in 1..3 |-> CleanPhotons])
    /\ \E I \in SUBSET (1..3), center \in {<<-5, 5, 10>>, <<10, 5, -5>>},
          cal_good \in [CalKinds -> BOOLEAN], cal_converges \in [CalKinds -> BOOLEAN],
          cal_aic \in [CalKinds -> 0..1] :
           fitres = Oracle({key \in SelfKeys(3) : key[1] \in I} \cup InformedKeys(I, Kinds),
                           [k \in Kinds |-> TRUE], [k \in Kinds |-> 0], center,
                           [i \in 1..3 |-> 0], cal_good, cal_converges, cal_aic)
    /\ EmptySolution
    /\ Sequential

SpecCal == InitCal /\ [][Next]_vars

(***************************************************************************)
(* C15: after fit_calibrations on a pixel with at least 3 good points, if  *)
(* some tried calibration kind has a good fit the stored calibration model *)
(* is a good one with the lowest AIC among the good ones and carries flag  *)
(* 10; otherwise it has the lowest AIC of all tried kinds and carries flag *)
(* 13 if its fit did not converge and 14 otherwise.                        *)
(***************************************************************************)
CalTried == {cfg.calibration_model_names[kk] : kk \in DOMAIN cfg.calibration_model_names}

CalGoodTried == {kind \in CalTried : fitres.cal_good[kind]}

C15_BestCalibrationStored ==
    (Last = "fit_calibrations" /\ Len(info.phases) >= MinPoints) =>
        IF CalGoodTried # {}
        THEN /\ Calibration.kind \in CalGoodTried
             /\ \A kind \in CalGoodTried :
                    fitres.cal_aic[Calibration.kind] <= fitres.cal_aic[kind]
             /\ has_good_solution(Calibration)
             /\ Calibration.flag = 10
        ELSE /\ Calibration.kind \in CalTried
             /\ \A kind \in CalTried : fitres.cal_aic[Calibration.kind] <= fitres.cal_aic[kind]
             /\ Calibration.flag =
                    IF The(Calibration.best_fit_result).success THEN 14 ELSE 13

(***************************************************************************)
(* C16: after fit_calibrations on a pixel with at least 3 good points      *)
(* whose phases violate the monotonicity check, a calibration fit was      *)
(* made and the stored calibration model carries flag 12.                  *)
(***************************************************************************)
C16_NotMonotonicRecorded ==
    (Last = "fit_calibrations" /\ Len(info.phases) >= MinPoints /\ info.not_monotonic) =>
        /\ Calibration.best_fit_result # None
        /\ Calibration.flag = 12

(***************************************************************************)
(* C17: after fit_calibrations on a pixel with fewer than 3 wavelengths    *)
(* having a good histogram fit, the calibration model carries flag 11, it  *)
(* is the model that was stored before (same kind) and holds no fit, and   *)
(* the call returned normally; in every case the points are exactly the    *)
(* fitted centres of the wavelengths with a good histogram fit.            *)
(***************************************************************************)
GoodWavelengths == {i \in DOMAIN Histograms : has_good_solution(Histograms[i])}

PrevCalibration == The(prev[ThePixel]).calibration

C17_NotEnoughPoints ==
    Last = "fit_calibrations" =>
        /\ Len(info.phases) = Cardinality(GoodWavelengths)
        /\ \A n \in DOMAIN info.phases :
               \E i \in GoodWavelengths :
                   /\ Cardinality({j \in GoodWavelengths : j <= i}) = n
                   /\ info.phases[n] = The(Histograms[i].best_fit_result).signal_center
        /\ Cardinality(GoodWavelengths) < MinPoints =>
               /\ Calibration.flag = 11
               /\ Calibration.kind = PrevCalibration.kind
               /\ Calibration.best_fit_result = None
               /\ ~info.error

C17_Witness ==
    /\ Last = "fit_calibrations"
    /\ Cardinality(GoodWavelengths) = 2
    /\ \A i \in DOMAIN Histograms : Histograms[i].x # None
    /\ Histograms[2].flag \in {6, 7}
    /\ info.phases = <<fitres.center[1], fitres.center[3]>>
    /\ Calibration.flag = 11

(***************************************************************************)
(* Tail-riding removal: one wavelength, a dead time of 1000 and up to      *)
(* MaxTail events 800 apart, slow enough not to be rejected as too hot.    *)
(***************************************************************************)
MaxTail == 3

TailEvents == [Time : {0, 800, 1600}, Wavelength : {-6, -1}]

InitTail ==
    /\ cfg = [Configuration(1, <<"GaussianAndExponential">>, <<"Quadratic">>, 1)
                  EXCEPT !.dt = 1000]
    /\ \E list \in UNION {[1..n -> TailEvents] : n \in 0..MaxTail} :
           photons = OnePixel(<<list>>)
    /\ fitres = Oracle(SelfKeys(1), [k \in Kinds |-> TRUE], [k \in Kinds |-> 0],
                       <<10>>, <<1>>, [k \in CalKinds |-> TRUE],
                       [k \in CalKinds |-> TRUE], [k \in CalKinds |-> 0])
    /\ EmptySolution
    /\ Sequential

SpecTail == InitTail /\ [][Next]_vars

(***************************************************************************)
(* C18: whenever make_histograms has applied _remove_tail_riding_photons   *)
(* to a photon list, the events it kept are those of the reference filter: *)
(* sorted by arrival time, the first event kept, and each later event kept *)
(* exactly when its time gap from the previous kept event exceeds dt.      *)
(***************************************************************************)
RECURSIVE KeptFrom(_, _, _, _)
KeptFrom(sorted, k, last_kept, dt) ==
    IF k > Len(sorted) THEN <<>>
    ELSE IF sorted[k].Time - last_kept > dt
    THEN <<sorted[k]>> \o KeptFrom(sorted, k + 1, sorted[k].Time, dt)
    ELSE KeptFrom(sorted, k + 1, last_kept, dt)

ReferenceFilter(dt, photon_list) ==
    IF photon_list = <<>> THEN <<>>
    ELSE <<SortByTime(photon_list)[1]>>
             \o KeptFrom(SortByTime(photon_list), 2, SortByTime(photon_list)[1].Time, dt)

KeptEvents(photon_list) ==
    [k \in DOMAIN remove_tail_riding_photons(cfg, photon_list) |->
        remove_tail_riding_photons(cfg, photon_list)[k].e]

C18_TailRidingReference ==
    Last = "make_histograms" =>
        \A i \in DOMAIN Photons :
            (/\ ~no_photons(Photons[i])
             /\ ~too_hot(Photons[i])
             /\ info.failed_at = 0 \/ i <= info.failed_at) =>
                KeptEvents(Photons[i]) = ReferenceFilter(cfg.dt, Photons[i])

(***************************************************************************)
(* C19: in the second pass of fit_histograms a wavelength is fitted again  *)
(* exactly when it has histogram data, the model stored for it after the   *)
(* first pass has no good fit and a strictly longer wavelength has a good  *)
(* fit; and when the retry gives a good fit, the Solution afterwards       *)
(* stores a good model for that wavelength.                                *)
(***************************************************************************)
Retried(i) == \E n \in DOMAIN info.log : info.log[n].pass = 2 /\ info.log[n].index = i

RetriedGood(i) ==
    \E n \in DOMAIN info.log :
        info.log[n].pass = 2 /\ info.log[n].index = i /\ info.log[n].good

ShouldRetry(i) ==
    /\ info.after_first[i].x # None
    /\ info.after_first[i].y # None
    /\ ~has_good_solution(info.after_first[i])
    /\ \E j \in DOMAIN info.after_first : j > i /\ has_good_solution(info.after_first[j])

C19_SecondPass ==
    (Last = "fit_histograms" /\ ~info.error) =>
        \A i \in DOMAIN info.after_first :
            /\ Retried(i) <=> ShouldRetry(i)
            /\ RetriedGood(i) => has_good_solution(Histograms[i])

(***************************************************************************)
(* C20: in the first pass of fit_histograms, whenever the fit of a         *)
(* wavelength from the computed guess is good, no further fit of that      *)
(* wavelength is made in the first pass, with the same or another kind,    *)
(* and that fit is the one stored for the wavelength after the first pass. *)
(***************************************************************************)
InformedGood(n) ==
    /\ info.log[n].pass = 1
    /\ info.log[n].guess.type = "informed"
    /\ info.log[n].good

C20_InformedFitKept ==
    (Last = "fit_histograms" /\ ~info.error) =>
        \A n \in DOMAIN info.log :
            InformedGood(n) =>
                /\ \A m \in DOMAIN info.log :
                       (m > n /\ info.log[m].pass = 1) => info.log[m].index # info.log[n].index
                /\ info.after_first[info.log[n].index].kind = info.log[n].kind
                /\ has_good_solution(info.after_first[info.log[n].index])
                /\ The(info.after_first[info.log[n].index].best_fit_result).guess
                       = info.log[n].guess


(***************************************************************************)
(* One per-pixel call of _parallel on a machine with more compute workers  *)
(* than half the queue size: all workers share input_queues[0].            *)
(***************************************************************************)
ManyWorkers == 3
ManyPixels == <<<<0, 0>>, <<0, 1>>, <<1, 0>>>>

InitMany ==
    /\ cfg = Configuration(ParWavelengths, <<"GaussianAndExponential">>, <<"Quadratic">>, 1)
    /\ fitres = Oracle(SelfKeys(ParWavelengths), [k \in Kinds |-> TRUE],
                       [k \in Kinds |-> 0], [i \in 1..ParWavelengths |-> 10 * i],
                       [i \in 1..ParWavelengths |-> 1],
                       [k \in CalKinds |-> TRUE], [k \in CalKinds |-> TRUE],
                       [k \in CalKinds |-> 0])
    /\ beam = [map |-> [p \in Pixels |-> 10 + p[1] * YPixels + p[2]],
               flags |-> [p \in Pixels |-> 0]]
    /\ \E source \in ParSources :
           /\ ~Raises(source)
           /\ photons = source
           /\ fit_array = Before("fit_calibrations")
           /\ orch = NewCall("fit_calibrations", FALSE, ManyPixels, 2 * ManyWorkers)
    /\ events = [e \in 1..(ManyWorkers + 1) |-> FALSE]
    /\ prev = fit_array
    /\ stage = <<>> /\ info = NoInfo /\ archive = None /\ loaded = None
    /\ input_queues = <<<<>>>>
    /\ output_queue = <<>> /\ progress_queue = <<>>
    /\ workers = <<>>

SpecMany == InitMany /\ [][NextPar]_vars

\* the call neither interrupted nor failed, and the orchestrator inside _parallel
Undisturbed == ~orch.interrupted /\ ~WorkerFailed /\ orch.pc # "done"

\* C21: absent interrupts and worker exceptions the call never comes to a
\* standstill before _parallel returns: while the orchestrator is inside
\* _parallel, it or some worker can take its next step.
C21_NeverStuck == Undisturbed => CanStep


(***************************************************************************)
(* The stop protocol of _parallel and Worker.run.                          *)
(***************************************************************************)
\* how many copies of a work unit or of its result are in a sequence of items
Copies(queue, unit) ==
    Len(SelectSeq(queue, LAMBDA item : /\ item.kind \in {"unit", "result"}
                                      /\ <<item.pixel, item.wavelengths>> = unit))

\* where a work unit is: to be dispatched, queued, with a worker, put out, merged
Whereabouts(unit) ==
    Len(SelectSeq(orch.todo, LAMBDA u : <<u.pixel, u.wavelengths>> = unit))
    + SumOver([q \in DOMAIN input_queues |-> Copies(input_queues[q], unit)],
              DOMAIN input_queues)
    + SumOver([w \in DOMAIN workers |-> Copies(<<workers[w].result>>, unit)],
              DOMAIN workers)
    + Copies(output_queue, unit)
    + Len(SelectSeq(orch.order, LAMBDA o : o = unit))

StopsIn(q) == Len(SelectSeq(input_queues[q], LAMBDA item : item.kind = "stop"))
StopsPut(q) == Cardinality({k \in 1..orch.stops : ((k - 1) % orch.queue_length) + 1 = q})
WorkersOf(q) == {w \in ComputeWorkers : QueueOf(w) = q}
Stopped(q) == {w \in WorkersOf(q) : workers # <<>> /\ workers[w].pc = "exited"}

\* C22: stops are put only when no unit is left to dispatch and lie behind
\* every unit of their queue, so a worker that takes a stop has no unit
\* queued for it; a worker that took a stop takes nothing more; every unit
\* is in exactly one place, from the dispatch list to the merged results,
\* while neither an interrupt nor a worker exception has happened (never in
\* two); once the stop loop is over every queue has received one stop per
\* worker reading it, and on return every worker has taken one and every
\* unit has been merged once.
C22_StopProtocol ==
    /\ orch.stops > 0 => orch.todo = <<>>
    /\ \A q \in DOMAIN input_queues : \A j, k \in DOMAIN input_queues[q] :
           (j < k /\ input_queues[q][j].kind = "stop") => input_queues[q][k].kind # "unit"
    /\ \A w \in DOMAIN workers :
           workers[w].pc = "exited" => (~CanGet(w) /\ ~CanPut(w))
    /\ \A unit \in Range(DispatchOrder) :
           /\ Whereabouts(unit) <= 1
           /\ (~orch.interrupted /\ ~WorkerFailed) => Whereabouts(unit) = 1
    /\ ~orch.interrupted =>
           \A q \in DOMAIN input_queues :
               /\ StopsIn(q) + Cardinality(Stopped(q)) = StopsPut(q)
               /\ orch.pc \in {"collect", "join", "finish", "finish_stop",
                               "join_progress", "done"}
                      => StopsPut(q) = Cardinality(WorkersOf(q))
    /\ orch.pc = "done" =>
           /\ \A q \in DOMAIN input_queues : input_queues[q] = <<>>
           /\ \A w \in ComputeWorkers : workers[w].pc = "exited"
           /\ \A unit \in Range(DispatchOrder) :
                  Len(SelectSeq(orch.order, LAMBDA o : o = unit)) = 1

\* a call has returned after two workers, each with its own queue, took their stops
C22_Witness ==
    /\ orch.pc = "done"
    /\ orch.h5_safe
    /\ orch.cpu_count = 2
    /\ Cardinality(Stopped(1)) = 1 /\ Cardinality(Stopped(2)) = 1
    /\ Len(orch.order) = orch.n_data


(***************************************************************************)
(* The workers of a call in h5_safe mode and the wavelengths they get.     *)
(***************************************************************************)
\* the wavelengths of the units queued for a worker or just computed by it
Handles(w) ==
    {i \in 1..Len(cfg.wavelengths) :
        \/ \E k \in DOMAIN input_queues[QueueOf(w)] :
               /\ input_queues[QueueOf(w)][k].kind = "unit"
               /\ i \in Range(input_queues[QueueOf(w)][k].wavelengths)
        \/ /\ workers # <<>>
           /\ workers[w].result.kind = "result"
           /\ i \in Range(workers[w].result.wavelengths)}

\* C23: in h5_safe mode there are min(number of wavelengths, ceil(cpu_count / 2))
\* compute workers, each reading a queue of its own, and no wavelength is
\* queued for or computed by two workers: a wavelength's units all go to the
\* queue of one worker.
C23_DisjointWavelengths ==
    orch.h5_safe =>
        /\ orch.cpu_count = Min({Len(cfg.wavelengths), (orch.mp_cpu_count + 1) \div 2})
        /\ workers # <<>> => DOMAIN workers = 1..(orch.cpu_count + 1)
        /\ Len(input_queues) = orch.cpu_count \/ orch.pc = "raised"
        /\ \A w1, w2 \in ComputeWorkers :
               w1 # w2 => (QueueOf(w1) # QueueOf(w2) /\ Handles(w1) \cap Handles(w2) = {})
        /\ \A k \in DOMAIN orch.todo :
               orch.todo[k].queue = ((orch.todo[k].wavelengths[1] - 1) % orch.cpu_count) + 1

\* two workers on a machine with more cores than needed, each with a unit of its own wavelength
C23_Witness ==
    /\ orch.h5_safe
    /\ orch.mp_cpu_count = MaxCpus
    /\ orch.cpu_count = 2
    /\ workers # <<>>
    /\ Handles(1) = {1}
    /\ Handles(2) = {2}
    /\ workers[1].result.kind = "result" /\ workers[2].result.kind = "result"


\* C24: in a call that has not been interrupted, a compute worker that has
\* put its result out can always put its progress message without waiting:
\* the progress queue is never full for it.
C24_ProgressNeverBlocks ==
    \A w \in DOMAIN workers :
        (~orch.interrupted /\ w # ProgressWorker /\ Alive(w)
             /\ workers[w].pc = "put_progress")
            => ~Full(progress_queue)


(***************************************************************************)
(* The histogram-model arrays of a Solution.                               *)
(***************************************************************************)
\* the model is untouched, or its histogram is the one of wavelength i of the pixel
OfWavelength(model, pixel, i) ==
    LET made == make_histogram(cfg, NewModel(model.kind, pixel, beam.map[pixel]),
                               photons[pixel][i])
    IN /\ model.pixel = pixel
       /\ model.res_id = beam.map[pixel]
       /\ \/ model.flag = FlagNotAttempted /\ model.x = None
          \/ /\ ~made.error
             /\ model.x = made.model.x
             /\ model.y = made.model.y
             /\ model.flag \in 1..4 => model.flag = made.model.flag

WellFormed(solution) ==
    \A pixel \in Pixels :
        solution[pixel] # None =>
            /\ Len(The(solution[pixel]).histograms) = Len(cfg.wavelengths)
            /\ \A i \in 1..Len(cfg.wavelengths) :
                   OfWavelength(The(solution[pixel]).histograms[i], pixel, i)

\* C25: in the orchestrator's Solution and in every worker's, each populated
\* pixel slot holds one histogram model per configured wavelength, and entry
\* i is the model of wavelength i: it carries the slot's pixel and res_id
\* and, once made, the histogram of that wavelength's photons.
C25_ArrayPerWavelength ==
    /\ WellFormed(fit_array)
    /\ \A w \in DOMAIN workers : WellFormed(workers[w].solution)

\* results of both wavelengths of a pixel have been merged into a slot made on first access
C25_Witness ==
    /\ orch.pc = "done"
    /\ orch.h5_safe
    /\ prev[<<0, 0>>] = None
    /\ fit_array[<<0, 0>>] # None
    /\ The(fit_array[<<0, 0>>]).histograms[1].x # None
    /\ The(fit_array[<<0, 0>>]).histograms[2].flag = 1
    /\ C25_ArrayPerWavelength


(***************************************************************************)
(* Configuration.__init__: the lists read from the file, then              *)
(* check_parameters, then enforce_consistency.  An entry of the            *)
(* wavelengths list is a number or something float() does not accept.      *)
(***************************************************************************)
MaxConfig == 3
WavelengthEntries ==
    [number : {TRUE}, value : {800, 900, 1000}] \cup {[number |-> FALSE, value |-> 0]}

\* the lists of a configuration file with n wavelengths
Parsed(entries, names) ==
    [stage |-> "parsed", raw |-> entries, wavelengths |-> entries,
     start_times |-> [i \in DOMAIN entries |-> i],
     exposure_times |-> [i \in DOMAIN entries |-> 100 + i],
     h5_file_names |-> names, config_changed |-> FALSE]

float(entry) == entry.value

check_parameters(c) ==
    IF \A i \in DOMAIN c.wavelengths : c.wavelengths[i].number
    THEN [c EXCEPT !.wavelengths = [i \in DOMAIN @ |-> float(@[i])],
                   !.stage = "checked"]
    ELSE [c EXCEPT !.stage = "rejected"]

\* '%d' % st + '.h5'
compute_hdf_names(start_times) ==
    [i \in DOMAIN start_times |-> [name |-> "%d.h5", of |-> start_times[i]]]

sorted(wavelengths) == SortSeq(wavelengths, LAMBDA a, b : a < b)

\* (sorted(self.wavelengths) != self.wavelengths).all()
differs_everywhere(wavelengths) ==
    \A i \in DOMAIN wavelengths : sorted(wavelengths)[i] # wavelengths[i]

\* the index arrays np.argsort may return
argsort(wavelengths) ==
    {indices \in [DOMAIN wavelengths -> DOMAIN wavelengths] :
        /\ \A i, j \in DOMAIN wavelengths : i # j => indices[i] # indices[j]
        /\ \A i, j \in DOMAIN wavelengths :
               i < j => wavelengths[indices[i]] <= wavelengths[indices[j]]}

sort_wavelengths(c, indices) ==
    [c EXCEPT !.wavelengths = [i \in DOMAIN indices |-> c.wavelengths[indices[i]]],
              !.exposure_times = [i \in DOMAIN indices |-> c.exposure_times[indices[i]]],
              !.start_times = [i \in DOMAIN indices |-> c.start_times[indices[i]]],
              !.h5_file_names =
                  Some([i \in DOMAIN indices |-> The(c.h5_file_names)[indices[i]]])]

CheckParameters ==
    /\ cfg.stage = "parsed"
    /\ cfg' = check_parameters(cfg)
    /\ UNCHANGED <<photons, fitres, fit_array, beam, prev, runvars, parvars>>

EnforceConsistency ==
    /\ cfg.stage = "checked"
    /\ LET named == IF cfg.h5_file_names = None
                    THEN [cfg EXCEPT !.config_changed = TRUE,
                                     !.h5_file_names =
                                         Some(compute_hdf_names(cfg.start_times))]
                    ELSE cfg
       IN IF differs_everywhere(named.wavelengths)
          THEN \E indices \in argsort(named.wavelengths) :
                   cfg' = [sort_wavelengths(named, indices)
                               EXCEPT !.config_changed = TRUE, !.stage = "constructed"]
          ELSE cfg' = [named EXCEPT !.stage = "constructed"]
    /\ UNCHANGED <<photons, fitres, fit_array, beam, prev, runvars, parvars>>

NextConfig == CheckParameters \/ EnforceConsistency

InitConfig ==
    /\ \E n \in 1..MaxConfig : \E entries \in [1..n -> WavelengthEntries] :
       \E names \in {None, Some([i \in 1..n |-> [name |-> "given", of |-> i]])} :
           cfg = Parsed(entries, names)
    /\ photons = OnePixel(<<>>)
    /\ fitres = Oracle({}, [k \in Kinds |-> TRUE], [k \in Kinds |-> 0], <<>>, <<>>,
                       [k \in CalKinds |-> TRUE], [k \in CalKinds |-> TRUE],
                       [k \in CalKinds |-> 0])
    /\ EmptySolution
    /\ Sequential

SpecConfig == InitConfig /\ [][NextConfig]_vars

\* position i of every list is what the file gave for one and the same wavelength
KeepsOwnFile ==
    \A i \in DOMAIN cfg.wavelengths :
        \E j \in DOMAIN cfg.raw :
            /\ cfg.start_times[i] = j
            /\ cfg.exposure_times[i] = 100 + j
            /\ cfg.wavelengths[i] = float(cfg.raw[j])
            /\ The(cfg.h5_file_names)[i].of = j

StrictlyIncreasing(wavelengths) ==
    \A i, j \in DOMAIN wavelengths : i < j => wavelengths[i] < wavelengths[j]

\* the file lists no wavelength twice
Distinct(entries) ==
    \A i, j \in DOMAIN entries : i # j => entries[i] # entries[j]

\* C26: a Configuration constructed from a list of distinct wavelengths has
\* strictly increasing wavelengths, and its start times, exposure times and
\* file names are those the file gave for the wavelength at the same position.
C26_SortedConfiguration ==
    (cfg.stage = "constructed" /\ Distinct(cfg.raw)) =>
        (StrictlyIncreasing(cfg.wavelengths) /\ KeepsOwnFile)


(***************************************************************************)
(* C27: when fit_histograms has returned, every wavelength of the pixel    *)
(* that has histogram data on at least 2 * max_parameters bins has a       *)
(* stored model whose flag is 0 exactly when the model has a good          *)
(* solution.                                                               *)
(***************************************************************************)
Fittable(model) ==
    /\ model.x # None
    /\ model.y # None
    /\ Len(The(model.x)) >= 2 * max_parameters

C27_FlagAgreesWithFit ==
    (Last = "fit_histograms" /\ ~info.error) =>
        \A i \in DOMAIN Histograms :
            Fittable(Histograms[i]) =>
                (Histograms[i].flag = 0 <=> has_good_solution(Histograms[i]))


(***************************************************************************)
(* C28: a wavelength whose stored model has a good fit and flag 0 when the *)
(* first pass of fit_histograms ends has a stored model with a good fit    *)
(* and flag 0 when fit_histograms returns.                                 *)
(***************************************************************************)
C28_SecondPassKeepsGood ==
    (Last = "fit_histograms" /\ ~info.error) =>
        \A i \in DOMAIN info.after_first :
            (has_good_solution(info.after_first[i]) /\ info.after_first[i].flag = 0) =>
                (has_good_solution(Histograms[i]) /\ Histograms[i].flag = 0)


(***************************************************************************)
(* C29: fit_histograms never ends with the RuntimeError of _guess, and     *)
(* every guess _guess computed, in either pass, was based on a good fit of *)
(* a shorter or of a longer wavelength, never of the fitted one.           *)
(***************************************************************************)
Computed(n) == info.log[n].guess.type = "informed"

C29_GuessNeverRaises ==
    Last = "fit_histograms" =>
        /\ ~info.error
        /\ \A n \in DOMAIN info.log :
               Computed(n) =>
                   /\ info.log[n].guess.shorter # 0 \/ info.log[n].guess.longer # 0
                   /\ info.log[n].guess.shorter # info.log[n].index
                   /\ info.log[n].guess.longer # info.log[n].index

\* a second run of fit_histograms computed guesses in both passes
C29_Witness ==
    /\ Last = "fit_histograms"
    /\ Count("fit_histograms") = 2
    /\ Len(cfg.histogram_model_names) = 2
    /\ \E n \in DOMAIN info.log :
           Computed(n) /\ info.log[n].pass = 1 /\ info.log[n].guess.shorter # 0
    /\ \E n \in DOMAIN info.log :
           Computed(n) /\ info.log[n].pass = 2 /\ info.log[n].guess.longer # 0


(***************************************************************************)
(* C30: _acquired stays within 0..n_data and is 0 when _parallel has       *)
(* returned; until an interrupt it is the number of results merged so far, *)
(* except after its reset, which happens only when all n_data results have *)
(* been merged and the orchestrator has left the last loop that calls      *)
(* _acquire_data.                                                          *)
(***************************************************************************)
PastCollecting == orch.pc \in {"join", "finish", "finish_stop", "join_progress", "done"}

C30_AcquiredCounter ==
    /\ orch.acquired \in 0..orch.n_data
    /\ orch.pc = "done" => orch.acquired = 0
    /\ ~orch.interrupted =>
           \/ orch.acquired = Len(orch.order) /\ ~PastCollecting
           \/ orch.acquired = 0 /\ Len(orch.order) = orch.n_data /\ PastCollecting

====
